---- MODULE Spec2Model ----
(***************************************************************************)
(* Model of the backtest engine (backtest/backtest_engine.py) driving a    *)
(* strategy that follows the BaseStrategy contract                         *)
(* (strategies/base_strategy.py), together with the update_position/reset  *)
(* overrides of the grid and momentum variants.                            *)
(*                                                                         *)
(* Numbers.  The program computes in floating point; the model computes    *)
(* the same expressions over exact rationals <<n, d>> (d > 0, lowest       *)
(* terms), so rounding error is not represented.  A division by zero,      *)
(* which numpy answers with nan, yields the value NaN.                     *)
(*                                                                         *)
(* Strategy decisions.  For the variants that inherit update_position,     *)
(* check_stop_loss, check_take_profit and reset from BaseStrategy and      *)
(* whose should_* methods are functions of (df, index) only, the answers   *)
(* for bar i are columns of the bar: long_signal, short_signal,            *)
(* exit_long_signal, exit_short_signal.                                    *)
(***************************************************************************)
EXTENDS Integers, Sequences, FiniteSets, TLC

(***************************************************************************)
(* Bounds of the model.                                                    *)
(***************************************************************************)
MaxBars == 3

(***************************************************************************)
(* Exact rational arithmetic.                                              *)
(***************************************************************************)
RECURSIVE GCD(_, _)
GCD(a, b) == IF b = 0 THEN a ELSE GCD(b, a % b)

Abs(n) == IF n < 0 THEN -n ELSE n

Norm(n, d) ==
    LET g == GCD(Abs(n), d) IN <<n \div g, d \div g>>

R(n, d) == Norm(n, d)

Zero == <<0, 1>>

One == <<1, 1>>

NaN == <<0, 0>>

IsNaN(a) == a[2] = 0

RAdd(a, b) ==
    IF IsNaN(a) \/ IsNaN(b) THEN NaN
    ELSE LET g == GCD(a[2], b[2])
         IN  Norm(a[1] * (b[2] \div g) + b[1] * (a[2] \div g), (a[2] \div g) * b[2])

RNeg(a) == <<-a[1], a[2]>>

RSub(a, b) == RAdd(a, RNeg(b))

RMul(a, b) ==
    IF IsNaN(a) \/ IsNaN(b) THEN NaN
    ELSE LET g1 == GCD(Abs(a[1]), b[2])
             g2 == GCD(Abs(b[1]), a[2])
         IN  Norm((a[1] \div g1) * (b[1] \div g2), (a[2] \div g2) * (b[2] \div g1))

RInv(a) == IF a[1] < 0 THEN <<-a[2], -a[1]>> ELSE <<a[2], a[1]>>

RDiv(a, b) ==
    IF IsNaN(a) \/ IsNaN(b) \/ b[1] = 0 THEN NaN ELSE RMul(a, RInv(b))

RAbs(a) == <<Abs(a[1]), a[2]>>

\* comparisons with nan are false, as in IEEE arithmetic
RLt(a, b) == ~IsNaN(a) /\ ~IsNaN(b) /\ RSub(a, b)[1] < 0

RLe(a, b) == ~IsNaN(a) /\ ~IsNaN(b) /\ RSub(a, b)[1] <= 0

RGt(a, b) == RLt(b, a)

RGe(a, b) == RLe(b, a)

Hundred == <<100, 1>>

(***************************************************************************)
(* Inputs: configurations, prices and signal columns.                      *)
(***************************************************************************)
\* config['trading'], config['backtest'] and the strategy's params
Configs ==
    { [initial_capital |-> R(1000, 1), commission |-> Zero, slippage |-> Zero,
       max_position_size |-> R(1, 2), stop_loss |-> R(1, 3), take_profit |-> R(1, 2)],
      [initial_capital |-> R(1000, 1), commission |-> R(1, 4), slippage |-> R(1, 4),
       max_position_size |-> R(1, 2), stop_loss |-> R(1, 3), take_profit |-> R(1, 2)],
      [initial_capital |-> R(1000, 1), commission |-> R(1, 4), slippage |-> Zero,
       max_position_size |-> One, stop_loss |-> R(1, 3), take_profit |-> R(1, 2)] }

\* close prices of a bar
Prices == {R(2, 1), R(3, 1), R(4, 1)}

\* the answers of should_enter_long, should_enter_short, should_exit_long,
\* should_exit_short for one bar
SignalRows ==
    { [long_signal |-> FALSE, short_signal |-> FALSE, exit_long_signal |-> FALSE, exit_short_signal |-> FALSE],
      [long_signal |-> TRUE,  short_signal |-> FALSE, exit_long_signal |-> FALSE, exit_short_signal |-> TRUE],
      [long_signal |-> FALSE, short_signal |-> TRUE,  exit_long_signal |-> TRUE,  exit_short_signal |-> FALSE],
      [long_signal |-> TRUE,  short_signal |-> TRUE,  exit_long_signal |-> TRUE,  exit_short_signal |-> TRUE] }

Bars == { [close |-> p] @@ s : p \in Prices, s \in SignalRows }

None == "None"

\* None where a price is expected, and where a grid level is expected
NoPrice == <<>>

NoLevel == -1

(***************************************************************************)
(* Strategies: BaseStrategy and the overrides of its variants.             *)
(* A strategy object is a record; `variant` names its class.               *)
(***************************************************************************)
Params(cfg) == [stop_loss |-> cfg.stop_loss, take_profit |-> cfg.take_profit]

\* BaseStrategy.__init__
BaseStrategy(params) ==
    [variant |-> "base", params |-> params,
     position |-> None, entry_price |-> Zero, position_size |-> Zero]

\* MomentumDipBuyingStrategy.__init__
MomentumDipBuyingStrategy(params) ==
    [variant |-> "momentum"] @@
    [first_entry_price |-> Zero, first_position_size |-> Zero,
     second_entry_price |-> Zero, second_position_size |-> Zero,
     has_added_position |-> FALSE, avg_entry_price |-> Zero,
     pump_detected |-> FALSE, pump_start_price |-> Zero,
     pump_threshold |-> R(5, 100), dip_threshold |-> R(3, 100),
     profit_target |-> R(5, 100),
     position_1_ratio |-> R(1, 2), leverage_multiplier |-> R(2, 1)] @@ BaseStrategy(params)

\* GridTradingStrategy.__init__ (grid_positions: grid level -> record)
GridTradingStrategy(params, grid_num, price_range) ==
    [variant |-> "grid"] @@
    [grid_num |-> grid_num, price_range |-> price_range,
     grid_prices |-> <<>>, base_price |-> NoPrice, grid_positions |-> <<>>] @@ BaseStrategy(params)

\* the loss must exceed the threshold: `>` where lines 116 and 121 have `>=`
check_stop_loss_Strict(s, current_price) ==
    IF s.position = None \/ s.entry_price = Zero THEN FALSE
    ELSE IF s.position = "LONG"
         THEN RGt(RDiv(RSub(s.entry_price, current_price), s.entry_price), s.params.stop_loss)
    ELSE IF s.position = "SHORT"
         THEN RGt(RDiv(RSub(current_price, s.entry_price), s.entry_price), s.params.stop_loss)
    ELSE FALSE

\* BaseStrategy.check_stop_loss
check_stop_loss(s, current_price) ==
    IF s.position = None \/ s.entry_price = Zero THEN FALSE
    ELSE IF s.position = "LONG"
         THEN RGe(RDiv(RSub(s.entry_price, current_price), s.entry_price), s.params.stop_loss)
    ELSE IF s.position = "SHORT"
         THEN RGe(RDiv(RSub(current_price, s.entry_price), s.entry_price), s.params.stop_loss)
    ELSE FALSE

\* BaseStrategy.check_take_profit
check_take_profit(s, current_price) ==
    IF s.position = None \/ s.entry_price = Zero THEN FALSE
    ELSE IF s.position = "LONG"
         THEN RGe(RDiv(RSub(current_price, s.entry_price), s.entry_price), s.params.take_profit)
    ELSE IF s.position = "SHORT"
         THEN RGe(RDiv(RSub(s.entry_price, current_price), s.entry_price), s.params.take_profit)
    ELSE FALSE

\* BaseStrategy.update_position
base_update_position(s, position_type, price, size) ==
    [s EXCEPT !.position = position_type, !.entry_price = price, !.position_size = size]

\* MomentumDipBuyingStrategy.update_position: the three branches in the
\* order of the if / elif chain
momentum_update_position(s, position_type, entry_price, position_size) ==
    IF s.position = None /\ position_type = "LONG"
    THEN [s EXCEPT !.position = position_type,
                   !.entry_price = entry_price,
                   !.first_entry_price = entry_price,
                   !.first_position_size = position_size,
                   !.position_size = position_size,
                   !.has_added_position = FALSE]
    ELSE IF s.position = "LONG" /\ ~s.has_added_position
    THEN LET total_value == RAdd(RMul(s.first_entry_price, s.first_position_size),
                                 RMul(entry_price, position_size))
             total_size  == RAdd(s.first_position_size, position_size)
         IN  [s EXCEPT !.second_entry_price = entry_price,
                       !.second_position_size = position_size,
                       !.has_added_position = TRUE,
                       !.avg_entry_price = RDiv(total_value, total_size),
                       !.position_size = total_size]
    ELSE IF position_type = None
    THEN [s EXCEPT !.position = None,
                   !.entry_price = Zero,
                   !.position_size = Zero,
                   !.first_entry_price = Zero,
                   !.first_position_size = Zero,
                   !.second_entry_price = Zero,
                   !.second_position_size = Zero,
                   !.has_added_position = FALSE,
                   !.avg_entry_price = Zero]
    ELSE s

\* truth value of self.grid_prices: [] is false; a numpy array of one
\* element has the truth value of the element; bool() of a longer array
\* raises ValueError (see grid_prices_raises)
grid_prices_truth(gp) == Len(gp) = 1 /\ gp[1] # Zero

grid_prices_raises(gp) == Len(gp) > 1

\* GridTradingStrategy._get_grid_level (reached only where the truth value
\* of grid_prices is defined)
RECURSIVE grid_level_from(_, _, _)
grid_level_from(gp, price, k) ==
    IF k > Len(gp) THEN Len(gp) - 1
    ELSE IF RLe(price, gp[k]) THEN k - 1
    ELSE grid_level_from(gp, price, k + 1)

_get_grid_level(s, price) ==
    IF ~grid_prices_truth(s.grid_prices) THEN NoLevel
    ELSE grid_level_from(s.grid_prices, price, 1)

\* GridTradingStrategy.update_position raises (after super().update_position
\* has run) when it takes the truth value of a grid of several levels
grid_update_position_raises(s, position_type) ==
    position_type = "LONG" /\ grid_prices_raises(s.grid_prices)

\* GridTradingStrategy.update_position; on a raise, the state at the raise
grid_update_position(s, position_type, price, size) ==
    LET b == base_update_position(s, position_type, price, size) IN
    IF position_type = "LONG"
    THEN IF grid_prices_raises(s.grid_prices) \/ ~grid_prices_truth(s.grid_prices) THEN b
         ELSE LET grid_level == _get_grid_level(b, price)
              IN  IF grid_level # NoLevel
                  THEN [b EXCEPT !.grid_positions =
                                   (grid_level :> [price |-> price, size |-> size]) @@ @]
                  ELSE b
    ELSE IF position_type = None
    THEN \* self.entry_price was set to `price` by super().update_position
         IF b.entry_price # Zero /\ ~grid_prices_raises(b.grid_prices)
               /\ grid_prices_truth(b.grid_prices)
         THEN LET grid_level == _get_grid_level(b, b.entry_price)
              IN  IF grid_level \in DOMAIN b.grid_positions
                  THEN [b EXCEPT !.grid_positions =
                                   [l \in DOMAIN @ \ {grid_level} |-> @[l]]]
                  ELSE b
         ELSE b
    ELSE b

\* strategy.update_position, dispatched on the class of the strategy
update_position(s, position_type, price, size) ==
    IF s.variant = "momentum" THEN momentum_update_position(s, position_type, price, size)
    ELSE IF s.variant = "grid" THEN grid_update_position(s, position_type, price, size)
    ELSE base_update_position(s, position_type, price, size)

update_position_raises(s, position_type) ==
    s.variant = "grid" /\ grid_update_position_raises(s, position_type)

\* BaseStrategy.reset
base_reset(s) ==
    [s EXCEPT !.position = None, !.entry_price = Zero, !.position_size = Zero]

\* MomentumDipBuyingStrategy.reset
momentum_reset(s) ==
    [base_reset(s) EXCEPT !.first_entry_price = Zero,
                          !.first_position_size = Zero,
                          !.second_entry_price = Zero,
                          !.second_position_size = Zero,
                          !.has_added_position = FALSE,
                          !.avg_entry_price = Zero,
                          !.pump_detected = FALSE,
                          !.pump_start_price = Zero]

\* GridTradingStrategy.reset
grid_reset(s) ==
    [base_reset(s) EXCEPT !.grid_prices = <<>>, !.base_price = NoPrice, !.grid_positions = <<>>]

\* strategy.reset, dispatched on the class of the strategy
reset(s) ==
    IF s.variant = "momentum" THEN momentum_reset(s)
    ELSE IF s.variant = "grid" THEN grid_reset(s)
    ELSE base_reset(s)

\* Bar k of a series is the row of index k - 1: `current_index` below is
\* the number of the bar and current_index - 1 the index the code compares.

\* MomentumDipBuyingStrategy.calculate_signals, line 82:
\* df['close'].pct_change(5), nan on the first five rows
price_change_5m(df, k) ==
    IF k <= 5 THEN NaN
    ELSE RDiv(RSub(df[k].close, df[k - 5].close), df[k - 5].close)

\* MomentumDipBuyingStrategy.should_enter_long without the guard of the
\* first ten bars
momentum_should_enter_long_NoGuard(s, df, current_index) ==
    IF s.position # None THEN FALSE
    ELSE RGt(price_change_5m(df, current_index), s.pump_threshold)

\* MomentumDipBuyingStrategy.should_enter_long
momentum_should_enter_long(s, df, current_index) ==
    IF current_index - 1 < 10 THEN FALSE
    ELSE IF s.position # None THEN FALSE
    ELSE RGt(price_change_5m(df, current_index), s.pump_threshold)

\* MomentumDipBuyingStrategy.should_exit_long
momentum_should_exit_long(s, df, current_index) ==
    IF current_index - 1 < 5 \/ s.position # "LONG" THEN FALSE
    ELSE LET current_price == df[current_index].close
             avg_price  == IF s.has_added_position THEN s.avg_entry_price
                           ELSE s.first_entry_price
             profit_pct == RDiv(RSub(current_price, avg_price), avg_price)
             dip_from_second ==
                 RDiv(RSub(s.second_entry_price, current_price), s.second_entry_price)
         IN  IF RLe(avg_price, Zero) THEN FALSE
             ELSE IF RGe(profit_pct, s.profit_target) THEN TRUE
             ELSE s.has_added_position /\ RGt(dip_from_second, s.dip_threshold)

\* the four decision methods, dispatched on the class of the strategy; the
\* answers of a variant that decides on (df, current_index) only are
\* columns of the bar
should_enter_long(s, df, current_index) ==
    IF s.variant = "momentum" THEN momentum_should_enter_long(s, df, current_index)
    ELSE df[current_index].long_signal

should_enter_short(s, df, current_index) ==
    IF s.variant = "momentum" THEN FALSE
    ELSE df[current_index].short_signal

should_exit_long(s, df, current_index) ==
    IF s.variant = "momentum" THEN momentum_should_exit_long(s, df, current_index)
    ELSE df[current_index].exit_long_signal

should_exit_short(s, df, current_index) ==
    IF s.variant = "momentum" THEN FALSE
    ELSE df[current_index].exit_short_signal

\* the bars a series starts with before the variant can answer true: line
\* 100 of the momentum strategy
WarmUpBars(s) == IF s.variant = "momentum" THEN 10 ELSE 0

\* the bars a series can continue with: the columns of the decision
\* answers matter only to a variant that reads them
BarsFor(s) ==
    IF s.variant = "momentum"
    THEN { b \in Bars : ~b.long_signal /\ ~b.short_signal /\ ~b.exit_long_signal
                                                        /\ ~b.exit_short_signal }
    ELSE Bars

(***************************************************************************)
(* BacktestEngine.  `config`, `strategy` and the fields set by __init__    *)
(* are variables; `df` is the bar series handed to run(), `i` the loop     *)
(* index (bar i has timestamp i), `pc` the position of run() in its body,  *)
(* `calls` the strategy methods and engine helpers called while the        *)
(* current bar is processed, `results` the dict returned by run(),         *)
(* `run_no` the number of calls of run() so far and `first_results` the    *)
(* dict the first call returned.                                           *)
(* LiveExecutor.  `is_running` is its field; `current_position` and        *)
(* `signal` are the locals of the last pass of _trading_loop, `exchange`   *)
(* the positions of the account on the exchange and `iterations` the       *)
(* number of passes started.                                               *)
(***************************************************************************)
VARIABLES config, strategy, capital, position, position_size, entry_price,
          trades, equity_curve, df, i, pc, calls, results, run_no, first_results,
          is_running, exchange, current_position, signal, iterations

vars == <<config, strategy, capital, position, position_size, entry_price,
          trades, equity_curve, df, i, pc, calls, results, run_no, first_results,
          is_running, exchange, current_position, signal, iterations>>

\* the state of a LiveExecutor and of the exchange account it trades on
executor_vars == <<is_running, exchange, current_position, signal, iterations>>

\* one position as _get_current_position returns it
PositionInfo(position_side, price, position_amt) ==
    [position_side |-> position_side, entry_price |-> price,
     position_amt |-> position_amt]

\* the None that _get_current_position returns
NoPosition == PositionInfo(None, Zero, Zero)

\* an account without positions: positionAmt 0 on both sides
NoAccount ==
    [LONG  |-> [entry_price |-> Zero, position_amt |-> Zero],
     SHORT |-> [entry_price |-> Zero, position_amt |-> Zero]]

\* no live executor has been started
NoExecutor ==
    /\ is_running = FALSE
    /\ exchange = NoAccount
    /\ current_position = NoPosition
    /\ signal = None
    /\ iterations = 0

\* the fields of the engine that _open_long, _open_short and
\* _close_position read and write
Engine ==
    [capital |-> capital, position |-> position, position_size |-> position_size,
     entry_price |-> entry_price, trades |-> trades]

\* the capital check of line 138 compares the cost without the commission
_open_long_CheckWithoutCommission(e, cfg, price, time) ==
    LET actual_price       == RMul(price, RAdd(One, cfg.slippage))
        max_position_value == RMul(e.capital, cfg.max_position_size)
        size               == RDiv(max_position_value, actual_price)
        cost               == RMul(size, actual_price)
        commission_cost    == RMul(cost, cfg.commission)
        total_cost         == RAdd(cost, commission_cost)
    IN  IF RGt(cost, e.capital)
        THEN [e EXCEPT !.position_size = size]
        ELSE [e EXCEPT !.position_size = size,
                       !.capital = RSub(e.capital, total_cost),
                       !.position = "LONG",
                       !.entry_price = actual_price,
                       !.trades = Append(e.trades,
                            [entry_time |-> time, entry_price |-> actual_price,
                             position_type |-> "LONG", size |-> size,
                             commission |-> commission_cost])]

\* the capital check of lines 138-140 is left out
_open_long_NoCapitalCheck(e, cfg, price, time) ==
    LET actual_price       == RMul(price, RAdd(One, cfg.slippage))
        max_position_value == RMul(e.capital, cfg.max_position_size)
        size               == RDiv(max_position_value, actual_price)
        cost               == RMul(size, actual_price)
        commission_cost    == RMul(cost, cfg.commission)
        total_cost         == RAdd(cost, commission_cost)
    IN  [e EXCEPT !.position_size = size,
                  !.capital = RSub(e.capital, total_cost),
                  !.position = "LONG",
                  !.entry_price = actual_price,
                  !.trades = Append(e.trades,
                       [entry_time |-> time, entry_price |-> actual_price,
                        position_type |-> "LONG", size |-> size,
                        commission |-> commission_cost])]

\* BacktestEngine._open_long
_open_long(e, cfg, price, time) ==
    LET actual_price       == RMul(price, RAdd(One, cfg.slippage))
        max_position_value == RMul(e.capital, cfg.max_position_size)
        size               == RDiv(max_position_value, actual_price)
        cost               == RMul(size, actual_price)
        commission_cost    == RMul(cost, cfg.commission)
        total_cost         == RAdd(cost, commission_cost)
    IN  IF RGt(total_cost, e.capital)
        THEN [e EXCEPT !.position_size = size]
        ELSE [e EXCEPT !.position_size = size,
                       !.capital = RSub(e.capital, total_cost),
                       !.position = "LONG",
                       !.entry_price = actual_price,
                       !.trades = Append(e.trades,
                            [entry_time |-> time, entry_price |-> actual_price,
                             position_type |-> "LONG", size |-> size,
                             commission |-> commission_cost])]

\* line 158 applies the slippage of the buy side to the short entry
_open_short_BuySlippage(e, cfg, price, time) ==
    LET actual_price       == RMul(price, RAdd(One, cfg.slippage))
        max_position_value == RMul(e.capital, cfg.max_position_size)
        size               == RDiv(max_position_value, actual_price)
        proceeds           == RMul(size, actual_price)
        commission_cost    == RMul(proceeds, cfg.commission)
        net_proceeds       == RSub(proceeds, commission_cost)
    IN  [e EXCEPT !.position_size = size,
                  !.capital = RAdd(e.capital, net_proceeds),
                  !.position = "SHORT",
                  !.entry_price = actual_price,
                  !.trades = Append(e.trades,
                       [entry_time |-> time, entry_price |-> actual_price,
                        position_type |-> "SHORT", size |-> size,
                        commission |-> commission_cost])]

\* BacktestEngine._open_short
_open_short(e, cfg, price, time) ==
    LET actual_price       == RMul(price, RSub(One, cfg.slippage))
        max_position_value == RMul(e.capital, cfg.max_position_size)
        size               == RDiv(max_position_value, actual_price)
        proceeds           == RMul(size, actual_price)
        commission_cost    == RMul(proceeds, cfg.commission)
        net_proceeds       == RSub(proceeds, commission_cost)
    IN  [e EXCEPT !.position_size = size,
                  !.capital = RAdd(e.capital, net_proceeds),
                  !.position = "SHORT",
                  !.entry_price = actual_price,
                  !.trades = Append(e.trades,
                       [entry_time |-> time, entry_price |-> actual_price,
                        position_type |-> "SHORT", size |-> size,
                        commission |-> commission_cost])]

\* the sign of the short side is lost
realized_pnl_LongFormula(pos, actual_price, entry, size) ==
    RMul(RSub(actual_price, entry), size)

\* the price difference is not multiplied by the size
realized_pnl_PerUnit(pos, actual_price, entry, size) ==
    IF pos = "LONG"
    THEN RSub(actual_price, entry)
    ELSE RSub(entry, actual_price)

\* BacktestEngine._close_position, lines 204-208: the realized PnL
realized_pnl(pos, actual_price, entry, size) ==
    IF pos = "LONG"
    THEN RMul(RSub(actual_price, entry), size)
    ELSE RMul(RSub(entry, actual_price), size)

\* the close writes the exit fields and leaves the position held
_close_position_KeepsPosition(e, cfg, price, time, reason) ==
    IF e.position = None \/ Len(e.trades) = 0 THEN e
    ELSE
    LET actual_price == IF e.position = "LONG"
                        THEN RMul(price, RSub(One, cfg.slippage))
                        ELSE RMul(price, RAdd(One, cfg.slippage))
        amount          == RMul(e.position_size, actual_price)
        commission_cost == RMul(amount, cfg.commission)
        new_capital     == IF e.position = "LONG"
                           THEN RAdd(e.capital, RSub(amount, commission_cost))
                           ELSE RSub(e.capital, RAdd(amount, commission_cost))
        pnl     == realized_pnl(e.position, actual_price, e.entry_price, e.position_size)
        pnl_pct == RMul(RDiv(pnl, RMul(e.entry_price, e.position_size)), Hundred)
        last    == Len(e.trades)
    IN  [e EXCEPT !.capital = new_capital,
                  !.trades = [e.trades EXCEPT ![last] =
                       [exit_time |-> time, exit_price |-> actual_price,
                        exit_reason |-> reason, pnl |-> pnl, pnl_pct |-> pnl_pct,
                        exit_commission |-> commission_cost] @@ @]]

\* lines 186-189 are left out: the position is closed at the quoted price
_close_position_NoSlippage(e, cfg, price, time, reason) ==
    IF e.position = None \/ Len(e.trades) = 0 THEN e
    ELSE
    LET actual_price == price
        amount          == RMul(e.position_size, actual_price)
        commission_cost == RMul(amount, cfg.commission)
        new_capital     == IF e.position = "LONG"
                           THEN RAdd(e.capital, RSub(amount, commission_cost))
                           ELSE RSub(e.capital, RAdd(amount, commission_cost))
        pnl     == realized_pnl(e.position, actual_price, e.entry_price, e.position_size)
        pnl_pct == RMul(RDiv(pnl, RMul(e.entry_price, e.position_size)), Hundred)
        last    == Len(e.trades)
    IN  [e EXCEPT !.capital = new_capital,
                  !.trades = [e.trades EXCEPT ![last] =
                       [exit_time |-> time, exit_price |-> actual_price,
                        exit_reason |-> reason, pnl |-> pnl, pnl_pct |-> pnl_pct,
                        exit_commission |-> commission_cost] @@ @],
                  !.position = None,
                  !.position_size = Zero,
                  !.entry_price = Zero]

\* BacktestEngine._close_position
_close_position(e, cfg, price, time, reason) ==
    IF e.position = None \/ Len(e.trades) = 0 THEN e
    ELSE
    LET actual_price == IF e.position = "LONG"
                        THEN RMul(price, RSub(One, cfg.slippage))
                        ELSE RMul(price, RAdd(One, cfg.slippage))
        \* proceeds (LONG) or cost (SHORT)
        amount          == RMul(e.position_size, actual_price)
        commission_cost == RMul(amount, cfg.commission)
        new_capital     == IF e.position = "LONG"
                           THEN RAdd(e.capital, RSub(amount, commission_cost))
                           ELSE RSub(e.capital, RAdd(amount, commission_cost))
        pnl     == realized_pnl(e.position, actual_price, e.entry_price, e.position_size)
        pnl_pct == RMul(RDiv(pnl, RMul(e.entry_price, e.position_size)), Hundred)
        last    == Len(e.trades)
    IN  [e EXCEPT !.capital = new_capital,
                  !.trades = [e.trades EXCEPT ![last] =
                       [exit_time |-> time, exit_price |-> actual_price,
                        exit_reason |-> reason, pnl |-> pnl, pnl_pct |-> pnl_pct,
                        exit_commission |-> commission_cost] @@ @],
                  !.position = None,
                  !.position_size = Zero,
                  !.entry_price = Zero]

\* the unrealized PnL is left out
_calculate_equity_CapitalOnly(e, current_price) == e.capital

\* BacktestEngine._calculate_equity
_calculate_equity(e, current_price) ==
    IF e.position = "LONG"
    THEN RAdd(e.capital, RMul(RSub(current_price, e.entry_price), e.position_size))
    ELSE IF e.position = "SHORT"
    THEN RAdd(e.capital, RMul(RSub(e.entry_price, current_price), e.position_size))
    ELSE e.capital

\* t.get('pnl', 0)
get_pnl(t) == IF "pnl" \in DOMAIN t THEN t.pnl ELSE Zero

RECURSIVE RSum(_)
RSum(seq) == IF Len(seq) = 0 THEN Zero ELSE RAdd(seq[1], RSum(Tail(seq)))

\* np.mean of a non-empty list
mean(seq) == RDiv(RSum(seq), <<Len(seq), 1>>)

RMax(a, b) == IF RLt(a, b) THEN b ELSE a

\* the peak is the first value of the series
cummax_First(seq, k) == seq[1]

\* Series.cummax at position k
RECURSIVE cummax(_, _)
cummax(seq, k) == IF k = 1 THEN seq[1] ELSE RMax(cummax(seq, k - 1), seq[k])

\* Series.min, which skips nan; nan when nothing is left
RECURSIVE series_min(_)
series_min(seq) ==
    IF Len(seq) = 0 THEN NaN
    ELSE LET m == series_min(Tail(seq))
         IN  IF IsNaN(seq[1]) THEN m
             ELSE IF IsNaN(m) THEN seq[1]
             ELSE IF RLt(m, seq[1]) THEN m ELSE seq[1]

\* a division by zero of a non-zero float64: inf, which the arithmetic
\* treats like nan
Inf == <<1, 0>>

\* Series.pct_change, line 267: nan first, then the relative change
pct_change(seq) ==
    [k \in 1..Len(seq) |->
        IF k = 1 THEN NaN
        ELSE IF seq[k - 1] = Zero
             THEN (IF seq[k] = Zero THEN NaN ELSE Inf)
             ELSE RSub(RDiv(seq[k], seq[k - 1]), One)]

\* line 268, `returns.std() > 0`: std skips nan and divides by n - 1; it is
\* nan with fewer than two values left or with inf among them, and else
\* positive unless the values are all equal
std_positive(returns) ==
    LET v == SelectSeq(returns, LAMBDA x : x # NaN)
    IN  /\ Len(v) >= 2
        /\ \A k \in 1..Len(v) : v[k] # Inf
        /\ \E j, k \in 1..Len(v) : v[j] # v[k]

\* line 268: returns.mean() / returns.std() * sqrt(252), or 0.  The
\* quotient, in general irrational, is kept as the term over its returns.
sharpe_ratio(returns) ==
    IF std_positive(returns)
    THEN [mean_over_std_times_sqrt252 |-> SelectSeq(returns, LAMBDA x : x # NaN)]
    ELSE Zero

\* the division is not guarded
profit_factor_Unguarded(avg_win, avg_loss) == RAbs(RDiv(avg_win, avg_loss))

\* line 271
profit_factor(avg_win, avg_loss) ==
    IF avg_loss # Zero THEN RAbs(RDiv(avg_win, avg_loss)) ELSE Zero

\* BacktestEngine._calculate_results
_calculate_results(e, curve, initial_capital) ==
    LET closed   == SelectSeq(e.trades, LAMBDA t : "exit_time" \in DOMAIN t)
        pnls     == [k \in 1..Len(e.trades) |-> get_pnl(e.trades[k])]
        wins     == SelectSeq(pnls, LAMBDA x : RGt(x, Zero))
        losses   == SelectSeq(pnls, LAMBDA x : RLt(x, Zero))
        total_trades   == Len(closed)
        winning_trades == Len(wins)
        losing_trades  == Len(losses)
        win_rate == IF total_trades > 0
                    THEN RMul(RDiv(<<winning_trades, 1>>, <<total_trades, 1>>), Hundred)
                    ELSE Zero
        total_pnl    == RSum(pnls)
        total_return == RMul(RDiv(RSub(e.capital, initial_capital), initial_capital), Hundred)
        avg_win  == IF winning_trades > 0 THEN mean(wins) ELSE Zero
        avg_loss == IF losing_trades > 0 THEN mean(losses) ELSE Zero
        equity   == [k \in 1..Len(curve) |-> curve[k].equity]
        drawdown == [k \in 1..Len(curve) |->
                        RDiv(RSub(equity[k], cummax(equity, k)), cummax(equity, k))]
        max_drawdown  == RMul(series_min(drawdown), Hundred)
        returns       == pct_change(equity)
    IN  [initial_capital |-> initial_capital,
         final_capital   |-> e.capital,
         total_return    |-> total_return,
         total_pnl       |-> total_pnl,
         total_trades    |-> total_trades,
         winning_trades  |-> winning_trades,
         losing_trades   |-> losing_trades,
         win_rate        |-> win_rate,
         avg_win         |-> avg_win,
         avg_loss        |-> avg_loss,
         profit_factor   |-> profit_factor(avg_win, avg_loss),
         max_drawdown    |-> max_drawdown,
         sharpe_ratio    |-> sharpe_ratio(returns),
         trades          |-> e.trades,
         equity_curve    |-> curve]

(***************************************************************************)
(* The state after BacktestEngine.__init__ with a strategy whose decision  *)
(* methods read the signal columns.                                        *)
(***************************************************************************)
Init ==
    /\ config \in Configs
    /\ strategy = BaseStrategy(Params(config))
    /\ capital = config.initial_capital
    /\ position = None
    /\ position_size = Zero
    /\ entry_price = Zero
    /\ trades = <<>>
    /\ equity_curve = <<>>
    /\ df = <<>>
    /\ i = 0
    /\ pc = "idle"
    /\ calls = <<>>
    /\ results = None
    /\ run_no = 0
    /\ first_results = None
    /\ NoExecutor

\* one entry of `calls`: the method, its result (for update_position and
\* the helpers, the argument that tells the calls apart) and the position
\* of the engine when it is called
Call(m, r, pos) == [m |-> m, r |-> r, position |-> pos]

SetEngine(e) ==
    /\ capital' = e.capital
    /\ position' = e.position
    /\ position_size' = e.position_size
    /\ entry_price' = e.entry_price
    /\ trades' = e.trades

\* line 57 is left out: the capital of the previous run is kept
run_reset_KeepsCapital ==
    /\ strategy' = reset(strategy)
    /\ capital' = capital
    /\ position' = None
    /\ position_size' = Zero
    /\ entry_price' = Zero
    /\ trades' = <<>>
    /\ equity_curve' = <<>>

\* run(), lines 55-65: reset of the strategy and of the engine state
run_reset ==
    /\ strategy' = reset(strategy)
    /\ capital' = config.initial_capital
    /\ position' = None
    /\ position_size' = Zero
    /\ entry_price' = Zero
    /\ trades' = <<>>
    /\ equity_curve' = <<>>

\* the first call of run(): it receives a series that the loop reads bar
\* by bar
RunStart ==
    /\ pc = "idle"
    /\ run_no = 0
    /\ run_reset
    /\ i' = 0
    /\ pc' = "loop"
    /\ calls' = <<>>
    /\ run_no' = 1
    /\ UNCHANGED <<config, df, results, first_results>>
    /\ UNCHANGED executor_vars

\* run(), lines 68-71: the loop takes the next bar of the series
NextBar ==
    /\ pc = "loop"
    /\ \/ /\ i < Len(df)
          /\ df' = df
       \/ /\ i = Len(df)
          /\ run_no = 1
          /\ Len(df) < MaxBars + WarmUpBars(strategy)
          /\ \E bar \in BarsFor(strategy) : df' = Append(df, bar)
    /\ i' = i + 1
    /\ pc' = "stops"
    /\ calls' = <<>>
    /\ UNCHANGED <<config, strategy, capital, position, position_size, entry_price,
                   trades, equity_curve, results, run_no, first_results>>
    /\ UNCHANGED executor_vars

current_price == df[i].close

\* a strategy method that raises when it is asked on bar i: the column
\* `raises` of the bar names it
Raises(m) == "raises" \in DOMAIN df[i] /\ df[i].raises = m

\* lines 74 and 78: check_stop_loss is asked first, check_take_profit when
\* it has answered false
RaisingCheck ==
    IF Raises("check_stop_loss") THEN "check_stop_loss" ELSE "check_take_profit"

StopCheckRaises ==
    \/ Raises("check_stop_loss")
    \/ Raises("check_take_profit") /\ ~check_stop_loss(strategy, current_price)

\* lines 85, 89, 95 and 100: the decision method run() asks for the bar
\* raises
RaisingDecision ==
    IF position = None
    THEN (IF Raises("should_enter_long") THEN "should_enter_long" ELSE "should_enter_short")
    ELSE IF position = "LONG" THEN "should_exit_long" ELSE "should_exit_short"

DecisionRaises ==
    IF position = None
    THEN \/ Raises("should_enter_long")
         \/ Raises("should_enter_short") /\ ~should_enter_long(strategy, df, i)
    ELSE IF position = "LONG" THEN Raises("should_exit_long")
    ELSE Raises("should_exit_short")

\* take-profit is asked before stop-loss
CheckStops_TakeProfitFirst ==
    /\ pc = "stops"
    /\ IF position # None
       THEN IF check_take_profit(strategy, current_price)
            THEN /\ SetEngine(_close_position(Engine, config, current_price, i, "TAKE_PROFIT"))
                 /\ strategy' = update_position(strategy, None, Zero, Zero)
                 /\ calls' = calls \o <<Call("check_take_profit", TRUE, position),
                                        Call("_close_position", "TAKE_PROFIT", position),
                                        Call("update_position", None, position')>>
            ELSE IF check_stop_loss(strategy, current_price)
            THEN /\ SetEngine(_close_position(Engine, config, current_price, i, "STOP_LOSS"))
                 /\ strategy' = update_position(strategy, None, Zero, Zero)
                 /\ calls' = calls \o <<Call("check_take_profit", FALSE, position),
                                        Call("check_stop_loss", TRUE, position),
                                        Call("_close_position", "STOP_LOSS", position),
                                        Call("update_position", None, position')>>
            ELSE /\ calls' = calls \o <<Call("check_take_profit", FALSE, position),
                                        Call("check_stop_loss", FALSE, position)>>
                 /\ UNCHANGED <<strategy, capital, position, position_size, entry_price, trades>>
       ELSE UNCHANGED <<strategy, capital, position, position_size, entry_price, trades, calls>>
    /\ pc' = "signals"
    /\ UNCHANGED <<config, equity_curve, df, i, results, run_no, first_results>>
    /\ UNCHANGED executor_vars

\* run(), lines 73-81: stop-loss, then take-profit, of a held position;
\* pc = "raised" when a check raises
CheckStops ==
    /\ pc = "stops"
    /\ IF position # None /\ StopCheckRaises
       THEN /\ pc' = "raised"
            /\ calls' = Append(calls, Call("raise", RaisingCheck, position))
            /\ UNCHANGED <<strategy, capital, position, position_size, entry_price, trades>>
       ELSE /\ IF position # None
               THEN IF check_stop_loss(strategy, current_price)
                    THEN /\ SetEngine(_close_position(Engine, config, current_price, i,
                                                      "STOP_LOSS"))
                         /\ strategy' = update_position(strategy, None, Zero, Zero)
                         /\ calls' = calls \o <<Call("check_stop_loss", TRUE, position),
                                                Call("_close_position", "STOP_LOSS", position),
                                                Call("update_position", None, position')>>
                    ELSE IF check_take_profit(strategy, current_price)
                    THEN /\ SetEngine(_close_position(Engine, config, current_price, i,
                                                      "TAKE_PROFIT"))
                         /\ strategy' = update_position(strategy, None, Zero, Zero)
                         /\ calls' = calls \o <<Call("check_stop_loss", FALSE, position),
                                                Call("check_take_profit", TRUE, position),
                                                Call("_close_position", "TAKE_PROFIT", position),
                                                Call("update_position", None, position')>>
                    ELSE /\ calls' = calls \o <<Call("check_stop_loss", FALSE, position),
                                                Call("check_take_profit", FALSE, position)>>
                         /\ UNCHANGED <<strategy, capital, position, position_size,
                                        entry_price, trades>>
               ELSE UNCHANGED <<strategy, capital, position, position_size, entry_price,
                                trades, calls>>
            /\ pc' = "signals"
    /\ UNCHANGED <<config, equity_curve, df, i, results, run_no, first_results>>
    /\ UNCHANGED executor_vars

\* _open_long line 130 and _open_short line 162 read
\* config['trading']['max_position_size'], the first statement of either
\* that can fail: an entry under a configuration without the key raises
\* KeyError out of run() before any state is changed
EntryRaises ==
    /\ "max_position_size" \notin DOMAIN config
    /\ should_enter_long(strategy, df, i) \/ should_enter_short(strategy, df, i)

\* line 88 reads `else` instead of `elif should_enter_short(...)`: a short
\* is opened whenever should_enter_long answers false
EnterChecks_ShortByDefault ==
    IF should_enter_long(strategy, df, i)
    THEN LET e == _open_long(Engine, config, current_price, i)
         IN  /\ SetEngine(e)
             /\ strategy' = update_position(strategy, "LONG", current_price, e.position_size)
             /\ calls' = calls \o <<Call("should_enter_long", TRUE, position),
                                    Call("_open_long", e.position, position),
                                    Call("update_position", "LONG", e.position)>>
    ELSE LET e == _open_short(Engine, config, current_price, i)
         IN  /\ SetEngine(e)
             /\ strategy' = update_position(strategy, "SHORT", current_price, e.position_size)
             /\ calls' = calls \o <<Call("should_enter_long", FALSE, position),
                                    Call("_open_short", e.position, position),
                                    Call("update_position", "SHORT", e.position)>>

\* run(), lines 85-91: the entry checks, long first
EnterChecks ==
    IF should_enter_long(strategy, df, i)
    THEN LET e == _open_long(Engine, config, current_price, i)
         IN  /\ SetEngine(e)
             /\ strategy' = update_position(strategy, "LONG", current_price, e.position_size)
             /\ calls' = calls \o <<Call("should_enter_long", TRUE, position),
                                    Call("_open_long", e.position, position),
                                    Call("update_position", "LONG", e.position)>>
    ELSE IF should_enter_short(strategy, df, i)
    THEN LET e == _open_short(Engine, config, current_price, i)
         IN  /\ SetEngine(e)
             /\ strategy' = update_position(strategy, "SHORT", current_price, e.position_size)
             /\ calls' = calls \o <<Call("should_enter_long", FALSE, position),
                                    Call("should_enter_short", TRUE, position),
                                    Call("_open_short", e.position, position),
                                    Call("update_position", "SHORT", e.position)>>
    ELSE /\ calls' = calls \o <<Call("should_enter_long", FALSE, position),
                                Call("should_enter_short", FALSE, position)>>
         /\ UNCHANGED <<strategy, capital, position, position_size, entry_price, trades>>

\* run(), lines 95-97: the exit check of a long position
ExitLongCheck ==
    IF should_exit_long(strategy, df, i)
    THEN /\ SetEngine(_close_position(Engine, config, current_price, i, "SIGNAL"))
         /\ strategy' = update_position(strategy, None, Zero, Zero)
         /\ calls' = calls \o <<Call("should_exit_long", TRUE, position),
                                Call("_close_position", "SIGNAL", position),
                                Call("update_position", None, position')>>
    ELSE /\ calls' = Append(calls, Call("should_exit_long", FALSE, position))
         /\ UNCHANGED <<strategy, capital, position, position_size, entry_price, trades>>

\* run(), lines 100-102: the exit check of a short position
ExitShortCheck ==
    IF should_exit_short(strategy, df, i)
    THEN /\ SetEngine(_close_position(Engine, config, current_price, i, "SIGNAL"))
         /\ strategy' = update_position(strategy, None, Zero, Zero)
         /\ calls' = calls \o <<Call("should_exit_short", TRUE, position),
                                Call("_close_position", "SIGNAL", position),
                                Call("update_position", None, position')>>
    ELSE /\ calls' = Append(calls, Call("should_exit_short", FALSE, position))
         /\ UNCHANGED <<strategy, capital, position, position_size, entry_price, trades>>

\* the entry checks are not guarded by `self.position is None`
CheckSignals_EntryAlways ==
    /\ pc = "signals"
    /\ EnterChecks
    /\ pc' = "equity"
    /\ UNCHANGED <<config, equity_curve, df, i, results, run_no, first_results>>
    /\ UNCHANGED executor_vars

\* the exit checks of the two sides are exchanged
CheckSignals_SwappedExits ==
    /\ pc = "signals"
    /\ IF position = None THEN EnterChecks
       ELSE IF position = "LONG" THEN ExitShortCheck
       ELSE IF position = "SHORT" THEN ExitLongCheck
       ELSE UNCHANGED <<strategy, capital, position, position_size, entry_price, trades, calls>>
    /\ pc' = "equity"
    /\ UNCHANGED <<config, equity_curve, df, i, results, run_no, first_results>>
    /\ UNCHANGED executor_vars

\* after an exit on a signal the signal checks of the bar are run again
CheckSignals_AgainAfterExit ==
    /\ pc = "signals"
    /\ IF position = None THEN EnterChecks
       ELSE IF position = "LONG" THEN ExitLongCheck
       ELSE IF position = "SHORT" THEN ExitShortCheck
       ELSE UNCHANGED <<strategy, capital, position, position_size, entry_price,
                        trades, calls>>
    /\ pc' = IF position # None /\ position' = None THEN "signals" ELSE "equity"
    /\ UNCHANGED <<config, equity_curve, df, i, results, run_no, first_results>>
    /\ UNCHANGED executor_vars

\* an exception of a decision method is caught and the loop goes on with
\* the next bar
CheckSignals_SkipBar ==
    /\ pc = "signals"
    /\ IF DecisionRaises
       THEN /\ pc' = "loop"
            /\ calls' = Append(calls, Call("raise", RaisingDecision, position))
            /\ UNCHANGED <<strategy, capital, position, position_size, entry_price, trades>>
       ELSE /\ IF position = None THEN EnterChecks
               ELSE IF position = "LONG" THEN ExitLongCheck
               ELSE IF position = "SHORT" THEN ExitShortCheck
               ELSE UNCHANGED <<strategy, capital, position, position_size, entry_price,
                                trades, calls>>
            /\ pc' = "equity"
    /\ UNCHANGED <<config, equity_curve, df, i, results, run_no, first_results>>
    /\ UNCHANGED executor_vars

\* run(), lines 83-102: entry checks when flat, else the exit check of the
\* held side; pc = "raised" when an exception leaves run()
CheckSignals ==
    /\ pc = "signals"
    /\ IF DecisionRaises
       THEN /\ pc' = "raised"
            /\ calls' = Append(calls, Call("raise", RaisingDecision, position))
            /\ UNCHANGED <<strategy, capital, position, position_size, entry_price, trades>>
       ELSE IF position = None /\ EntryRaises
       THEN /\ pc' = "raised"
            /\ calls' = Append(calls, Call("KeyError", "max_position_size", position))
            /\ UNCHANGED <<strategy, capital, position, position_size, entry_price, trades>>
       ELSE /\ IF position = None THEN EnterChecks
               ELSE IF position = "LONG" THEN ExitLongCheck
               ELSE IF position = "SHORT" THEN ExitShortCheck
               ELSE UNCHANGED <<strategy, capital, position, position_size, entry_price,
                                trades, calls>>
            /\ pc' = "equity"
    /\ UNCHANGED <<config, equity_curve, df, i, results, run_no, first_results>>
    /\ UNCHANGED executor_vars

\* run(), lines 104-110: the equity snapshot of the bar
RecordEquity ==
    /\ pc = "equity"
    /\ equity_curve' = Append(equity_curve,
           [timestamp |-> i,
            equity    |-> _calculate_equity(Engine, current_price),
            position  |-> position])
    /\ pc' = "loop"
    /\ UNCHANGED <<config, strategy, capital, position, position_size, entry_price,
                   trades, df, i, calls, results, run_no, first_results>>
    /\ UNCHANGED executor_vars

\* the held position is not closed after the loop
FinalClose_NoClose ==
    /\ pc = "loop"
    /\ i = Len(df)
    /\ Len(df) >= 1
    /\ calls' = <<>>
    /\ pc' = "results"
    /\ UNCHANGED <<config, strategy, capital, position, position_size, entry_price, trades,
                   equity_curve, df, i, results, run_no, first_results>>
    /\ UNCHANGED executor_vars

\* without a held position the last record of the ledger is stamped with
\* the end of the run
FinalClose_StampsLast ==
    /\ pc = "loop"
    /\ i = Len(df)
    /\ Len(df) >= 1
    /\ IF position # None
       THEN /\ SetEngine(_close_position(Engine, config, df[Len(df)].close, Len(df), "FINAL"))
            /\ calls' = <<Call("_close_position", "FINAL", position)>>
       ELSE /\ trades' = IF Len(trades) = 0 THEN trades
                         ELSE [trades EXCEPT ![Len(trades)] =
                                  [exit_time |-> Len(df), exit_reason |-> "FINAL"] @@ @]
            /\ UNCHANGED <<capital, position, position_size, entry_price>>
            /\ calls' = <<>>
    /\ pc' = "results"
    /\ UNCHANGED <<config, strategy, equity_curve, df, i, results, run_no, first_results>>
    /\ UNCHANGED executor_vars

\* run(), lines 112-116: the loop is over (the series has at least one
\* bar); a position that is still held is closed at the last close
FinalClose ==
    /\ pc = "loop"
    /\ i = Len(df)
    /\ Len(df) >= 1
    /\ IF position # None
       THEN /\ SetEngine(_close_position(Engine, config, df[Len(df)].close, Len(df), "FINAL"))
            /\ calls' = <<Call("_close_position", "FINAL", position)>>
       ELSE /\ UNCHANGED <<capital, position, position_size, entry_price, trades>>
            /\ calls' = <<>>
    /\ pc' = "results"
    /\ UNCHANGED <<config, strategy, equity_curve, df, i, results, run_no, first_results>>
    /\ UNCHANGED executor_vars

\* run(), lines 118-122: the report is computed and returned
CalculateResults ==
    /\ pc = "results"
    /\ results' = _calculate_results(Engine, equity_curve, config.initial_capital)
    /\ pc' = "done"
    /\ UNCHANGED <<config, strategy, capital, position, position_size, entry_price,
                   trades, equity_curve, df, i, calls, run_no, first_results>>
    /\ UNCHANGED executor_vars

\* a second call of run() on the same engine, strategy and series; the
\* caller keeps the dict the first call returned.  Lines 61-62 bind new
\* lists, so the lists inside that dict are no longer the engine's.
RunAgain ==
    /\ pc = "done"
    /\ run_no = 1
    /\ run_reset
    /\ first_results' = results
    /\ i' = 0
    /\ pc' = "loop"
    /\ calls' = <<>>
    /\ run_no' = 2
    /\ UNCHANGED <<config, df, results>>
    /\ UNCHANGED executor_vars

Next ==
    \/ RunStart
    \/ NextBar
    \/ CheckStops
    \/ CheckSignals
    \/ RecordEquity
    \/ FinalClose
    \/ CalculateResults

Spec == Init /\ [][Next]_vars

\* two calls of run() in a row
NextRerun == Next \/ RunAgain

SpecRerun == Init /\ [][NextRerun]_vars

(***************************************************************************)
(* A strategy object under the calls of a driver (the backtest engine or   *)
(* the live executor): update_position with the arguments the drivers      *)
(* pass, reset, and for the grid variant the grid set-up of                *)
(* calculate_signals.  `calls` holds the last call.                        *)
(***************************************************************************)
\* position sizes a driver reports
Sizes == {R(5, 1), R(10, 1)}

\* GridTradingStrategy._setup_grid, arithmetic mode:
\* np.linspace(lower_price, upper_price, grid_num + 1)
_setup_grid(s) ==
    IF s.base_price = NoPrice THEN s
    ELSE LET upper_price == RMul(s.base_price, RAdd(One, s.price_range))
             lower_price == RMul(s.base_price, RSub(One, s.price_range))
         IN  [s EXCEPT !.grid_prices =
                 IF s.grid_num = 0 THEN <<lower_price>>
                 ELSE [k \in 1..(s.grid_num + 1) |->
                          RAdd(lower_price,
                               RMul(<<k - 1, 1>>,
                                    RDiv(RSub(upper_price, lower_price), <<s.grid_num, 1>>)))]]

InitStrategy ==
    /\ config \in Configs
    /\ strategy \in { BaseStrategy(Params(config)),
                      MomentumDipBuyingStrategy(Params(config)),
                      GridTradingStrategy(Params(config), 0, R(1, 2)),
                      GridTradingStrategy(Params(config), 2, R(1, 2)) }
    /\ capital = config.initial_capital
    /\ position = None
    /\ position_size = Zero
    /\ entry_price = Zero
    /\ trades = <<>>
    /\ equity_curve = <<>>
    /\ df = <<>>
    /\ i = 0
    /\ pc = "idle"
    /\ calls = <<>>
    /\ results = None
    /\ run_no = 0
    /\ first_results = None
    /\ NoExecutor

EngineVars == <<config, capital, position, position_size, entry_price, trades,
                equity_curve, df, i, pc, results, run_no, first_results>>

\* the driver reports an opened position: update_position('LONG' or
\* 'SHORT', current_price, position_size)
StrategyOpened ==
    /\ \E position_type \in {"LONG", "SHORT"}, price \in Prices, size \in Sizes :
          /\ strategy' = update_position(strategy, position_type, price, size)
          /\ calls' = <<Call("update_position", <<position_type, price, size>>, None)>>
    /\ UNCHANGED EngineVars
    /\ UNCHANGED executor_vars

\* the driver reports a closed position: update_position(None, 0, 0)
StrategyClosed ==
    /\ strategy' = update_position(strategy, None, Zero, Zero)
    /\ calls' = <<Call("update_position", <<None, Zero, Zero>>, None)>>
    /\ UNCHANGED EngineVars
    /\ UNCHANGED executor_vars

\* strategy.reset()
StrategyReset ==
    /\ strategy' = reset(strategy)
    /\ calls' = <<Call("reset", <<>>, None)>>
    /\ UNCHANGED EngineVars
    /\ UNCHANGED executor_vars

\* GridTradingStrategy.calculate_signals, lines 53-55: the first call after
\* construction or reset takes the mean close as base price and sets up
\* the grid
GridSetup ==
    /\ strategy.variant = "grid"
    /\ strategy.base_price = NoPrice
    /\ \E base_price \in Prices :
          strategy' = _setup_grid([strategy EXCEPT !.base_price = base_price])
    /\ calls' = <<Call("calculate_signals", <<>>, None)>>
    /\ UNCHANGED EngineVars
    /\ UNCHANGED executor_vars

\* the driver asks check_stop_loss and check_take_profit for a price
StrategyChecks ==
    /\ \E price \in Prices :
          calls' = <<Call("check_stop_loss", <<price, check_stop_loss(strategy, price)>>, None),
                     Call("check_take_profit", <<price, check_take_profit(strategy, price)>>, None)>>
    /\ UNCHANGED strategy
    /\ UNCHANGED EngineVars
    /\ UNCHANGED executor_vars

NextStrategy ==
    \/ StrategyOpened
    \/ StrategyClosed
    \/ StrategyReset
    \/ GridSetup
    \/ StrategyChecks

SpecStrategy == InitStrategy /\ [][NextStrategy]_vars

(***************************************************************************)
(* Properties.                                                             *)
(***************************************************************************)
\* price * (1 + slippage) and price * (1 - slippage)
BuyPrice(p) == RMul(p, RAdd(One, config.slippage))

SellPrice(p) == RMul(p, RSub(One, config.slippage))

IsClosed(t) == "exit_time" \in DOMAIN t

NumClosed(ts) == Cardinality({k \in 1..Len(ts) : IsClosed(ts[k])})

\* two consecutive snapshots k, k+1 hold different non-FLAT positions
Reversed(k) ==
    /\ equity_curve[k].position # None
    /\ equity_curve[k + 1].position # None
    /\ equity_curve[k].position # equity_curve[k + 1].position

\* C1 as stated: in the equity curve a LONG snapshot is never immediately
\* followed by a SHORT snapshot, nor SHORT by LONG.
C1_SnapshotsNeverReverse ==
    \A k \in 1..(Len(equity_curve) - 1) : ~Reversed(k)

\* C1, amended: the engine's position never changes from one non-FLAT type
\* to the other in one step (it passes through FLAT), and two consecutive
\* snapshots hold different non-FLAT types only if on the later bar the
\* held position was closed by STOP_LOSS or TAKE_PROFIT and a position of
\* the other type was opened on that same bar.
C1_ReversalOnlyThroughFlat ==
    /\ [][position # None /\ position' # None => position' = position]_vars
    /\ [](\A k \in 1..(Len(equity_curve) - 1) :
            Reversed(k) =>
               \E m, n \in 1..Len(trades) :
                  /\ IsClosed(trades[m])
                  /\ trades[m].exit_time = equity_curve[k + 1].timestamp
                  /\ trades[m].exit_reason \in {"STOP_LOSS", "TAKE_PROFIT"}
                  /\ trades[m].position_type = equity_curve[k].position
                  /\ n = m + 1
                  /\ trades[n].entry_time = equity_curve[k + 1].timestamp
                  /\ trades[n].position_type = equity_curve[k + 1].position)

C1_Witness ==
    \E k \in 1..(Len(equity_curve) - 1) :
        equity_curve[k].position = "LONG" /\ equity_curve[k + 1].position = "SHORT"

\* the step closes the held position at the close of bar i for `reason`
ClosedWith(reason) ==
    /\ position' = None
    /\ Len(trades') = Len(trades)
    /\ LET t == trades'[Len(trades')]
       IN  /\ IsClosed(t)
           /\ t.exit_reason = reason
           /\ t.exit_time = i
           /\ t.exit_price = IF position = "LONG" THEN SellPrice(df[i].close)
                                                  ELSE BuyPrice(df[i].close)

\* C2: on a bar that starts with a position, check_stop_loss is evaluated
\* first; if it is true the position is closed at the bar's close with
\* reason STOP_LOSS and check_take_profit is not evaluated; otherwise
\* check_take_profit is evaluated and closes with TAKE_PROFIT when true.
\* On a bar that starts FLAT neither is evaluated.
C2_StopLossBeforeTakeProfit ==
    [][pc = "stops" =>
         IF position = None
         THEN calls' = <<>> /\ position' = None /\ trades' = trades
         ELSE /\ Len(calls') >= 1
              /\ calls'[1].m = "check_stop_loss"
              /\ calls'[1].r = check_stop_loss(strategy, df[i].close)
              /\ calls'[1].r =>
                    /\ ClosedWith("STOP_LOSS")
                    /\ \A k \in 1..Len(calls') : calls'[k].m # "check_take_profit"
              /\ ~calls'[1].r =>
                    /\ Len(calls') >= 2
                    /\ calls'[2].m = "check_take_profit"
                    /\ calls'[2].r = check_take_profit(strategy, df[i].close)
                    /\ calls'[2].r => ClosedWith("TAKE_PROFIT")
                    /\ ~calls'[2].r => position' = position /\ trades' = trades]_vars

C2_Witness ==
    \E m, n \in 1..Len(trades) :
        /\ IsClosed(trades[m]) /\ trades[m].exit_reason = "STOP_LOSS"
        /\ IsClosed(trades[n]) /\ trades[n].exit_reason = "TAKE_PROFIT"

\* C3: should_enter_long / should_enter_short are called only while the
\* engine is FLAT, short only after long answered false; should_exit_long
\* only while LONG, should_exit_short only while SHORT; a trade is opened
\* only from FLAT and closed only from non-FLAT.
C3_DecisionCallsMatchPosition ==
    /\ [](\A k \in 1..Len(calls) :
            LET c == calls[k] IN
            /\ c.m \in {"should_enter_long", "should_enter_short", "_open_long", "_open_short"}
                  => c.position = None
            /\ c.m = "should_enter_short"
                  => k > 1 /\ calls[k - 1].m = "should_enter_long" /\ calls[k - 1].r = FALSE
            /\ c.m = "should_exit_long" => c.position = "LONG"
            /\ c.m = "should_exit_short" => c.position = "SHORT"
            /\ c.m = "_close_position" => c.position # None)
    /\ [][/\ Len(trades') > Len(trades) => position = None
          /\ NumClosed(trades') > NumClosed(trades) => position # None /\ position' = None]_vars

C3_Witness ==
    /\ pc = "equity"
    /\ position = "SHORT"
    /\ \E k \in 1..Len(calls) : calls[k].m = "should_enter_short" /\ calls[k].r = TRUE
    /\ \E t \in 1..Len(trades) : IsClosed(trades[t]) /\ trades[t].exit_reason = "SIGNAL"

RECURSIVE SumOver(_, _)
SumOver(ts, field) ==
    IF Len(ts) = 0 THEN Zero
    ELSE RAdd(IF IsClosed(ts[1]) THEN ts[1][field] ELSE Zero, SumOver(Tail(ts), field))

\* C4: final_capital = initial_capital + sum of realized pnl - sum of
\* (entry commission + exit commission), over the closed trades.
C4_CapitalConservation ==
    pc = "done" =>
       results.final_capital =
          RSub(RAdd(results.initial_capital, SumOver(results.trades, "pnl")),
               RAdd(SumOver(results.trades, "commission"),
                    SumOver(results.trades, "exit_commission")))

C4_Witness ==
    /\ pc = "done"
    /\ config.commission # Zero
    /\ \E m, n \in 1..Len(results.trades) :
          /\ results.trades[m].position_type = "LONG"
          /\ results.trades[n].position_type = "SHORT"
          /\ results.trades[n].pnl # Zero

\* C5: the engine reports every open and every close, the FINAL one
\* included, to the strategy, so that when run() returns the strategy's
\* recorded position is FLAT.
C5_StrategyFlatAtReturn ==
    pc = "done" => strategy.position = None

\* C6: for every strategy variant, update_position(None, 0, 0) called while
\* the strategy records LONG or SHORT leaves it recording FLAT with entry
\* price 0 and size 0, whatever its private sub-state.
C6_CloseClearsStrategy ==
    [][(/\ strategy.position \in {"LONG", "SHORT"}
        /\ calls' = <<Call("update_position", <<None, Zero, Zero>>, None)>>)
       => /\ strategy'.position = None
          /\ strategy'.entry_price = Zero
          /\ strategy'.position_size = Zero]_vars

\* C7: a position still open when the loop ends is closed at the last
\* bar's close with exit_reason FINAL; when run() returns the engine is
\* FLAT, every trade of the ledger has its exit fields and total_trades is
\* the length of the ledger.
C7_ForcedLiquidation ==
    /\ [][pc = "loop" /\ pc' = "results" /\ position # None =>
            /\ Len(trades') = Len(trades)
            /\ LET t == trades'[Len(trades')]
               IN  /\ IsClosed(t)
                   /\ t.exit_reason = "FINAL"
                   /\ t.exit_time = Len(df)
                   /\ t.exit_price = IF position = "LONG"
                                     THEN SellPrice(df[Len(df)].close)
                                     ELSE BuyPrice(df[Len(df)].close)]_vars
    /\ [](pc \in {"results", "done"} =>
            /\ position = None
            /\ \A k \in 1..Len(trades) : IsClosed(trades[k]))
    /\ [](pc = "done" => results.total_trades = Len(results.trades))

C7_Witness ==
    /\ pc = "done"
    /\ Len(results.trades) >= 2
    /\ results.trades[Len(results.trades)].exit_reason = "FINAL"
    /\ results.trades[Len(results.trades)].exit_time = MaxBars

\* the unrealized PnL of the engine's position at price p
Unrealized(p) ==
    IF position = "LONG" THEN RMul(RSub(p, entry_price), position_size)
    ELSE IF position = "SHORT" THEN RMul(RSub(entry_price, p), position_size)
    ELSE Zero

\* C8: one snapshot per bar, appended after the opens and closes of the
\* bar; its equity is capital plus the unrealized PnL at the bar's close,
\* its position the engine's position at the end of the bar; the curve has
\* one entry per bar, in bar order, and earlier entries never change.
C8_OneSnapshotPerBar ==
    /\ [][pc = "equity" =>
            /\ equity_curve' = Append(equity_curve,
                   [timestamp |-> i,
                    equity    |-> RAdd(capital, Unrealized(df[i].close)),
                    position  |-> position])
            /\ position' = position /\ capital' = capital /\ trades' = trades
            /\ pc' = "loop"]_vars
    /\ [][pc \notin {"equity", "idle"} => equity_curve' = equity_curve]_vars
    /\ [](pc \in {"loop", "stops"} => Len(equity_curve) = IF pc = "loop" THEN i ELSE i - 1)
    /\ [](pc \in {"results", "done"} => Len(equity_curve) = Len(df))
    /\ [](\A k \in 1..Len(equity_curve) : equity_curve[k].timestamp = k)

C8_Witness ==
    /\ pc = "done"
    /\ Len(equity_curve) = MaxBars
    /\ \E k \in 2..Len(equity_curve) :
          /\ equity_curve[k].position = "SHORT"
          /\ equity_curve[k - 1].position = "SHORT"
          /\ equity_curve[k].equity # equity_curve[k - 1].equity

\* size * effective price + commission of a LONG entry at price p
LongEntryCost(p) ==
    LET size == RDiv(RMul(capital, config.max_position_size), BuyPrice(p))
        cost == RMul(size, BuyPrice(p))
    IN  RAdd(cost, RMul(cost, config.commission))

\* C9: a LONG entry whose total cost exceeds the capital is skipped: no
\* trade record, capital unchanged, the engine stays FLAT, and the loop
\* goes on to the snapshot of the bar.
C9_InsufficientCapitalSkipsOpen ==
    [][(/\ pc = "signals"
        /\ position = None
        /\ should_enter_long(strategy, df, i)
        /\ RGt(LongEntryCost(df[i].close), capital))
       => /\ trades' = trades
          /\ capital' = capital
          /\ position' = None
          /\ pc' = "equity"
          /\ i' = i /\ df' = df]_vars

C9_Witness ==
    /\ pc = "stops"
    /\ i = 2
    /\ df[1].long_signal
    /\ trades = <<>>
    /\ capital = config.initial_capital
    /\ Len(equity_curve) = 1
    /\ equity_curve[1].position = None

NoEntryAnswer ==
    \A k \in 1..Len(df) :
        ~should_enter_long(strategy, df, k) /\ ~should_enter_short(strategy, df, k)

\* C11: when the strategy never answers true to should_enter_long or
\* should_enter_short, the ledger stays empty, the capital stays the initial
\* capital, every snapshot is flat with equity = initial capital, and the
\* report has total_trades = 0 and final_capital = initial_capital.
C11_NoEntryNoTrade ==
    NoEntryAnswer =>
        /\ trades = <<>>
        /\ capital = config.initial_capital
        /\ \A k \in 1..Len(equity_curve) :
              /\ equity_curve[k].position = None
              /\ equity_curve[k].equity = config.initial_capital
        /\ pc = "done" =>
              /\ results.total_trades = 0
              /\ results.trades = <<>>
              /\ results.final_capital = config.initial_capital
              /\ results.equity_curve = equity_curve

\* a finished run over several bars of different prices without an entry
C11_Witness ==
    /\ pc = "done"
    /\ NoEntryAnswer
    /\ Len(df) >= 2
    /\ \E k \in 1..Len(df) : df[k].close # df[1].close
    /\ Len(results.equity_curve) = Len(df)
    /\ results.total_trades = 0

(***************************************************************************)
(* C12.  The cost model of a fill.                                         *)
(***************************************************************************)
\* what a buy of `size` at effective price `eff` takes from the capital and
\* what a sell adds to it
BuyOutlay(size, eff) == RMul(RMul(size, eff), RAdd(One, config.commission))

SellIncome(size, eff) == RMul(RMul(size, eff), RSub(One, config.commission))

\* the step appends a trade to the ledger
OpensTrade == Len(trades') = Len(trades) + 1

\* the step closes the held position
ClosesTrade == position # None /\ position' = None

\* C12: a buy (LONG open, SHORT close) fills at price * (1 + slippage) and
\* lowers the capital by size * effective price * (1 + commission); a sell
\* (SHORT open, LONG close) fills at price * (1 - slippage) and raises the
\* capital by size * effective price * (1 - commission); on an entry of
\* either side size = capital * max_position_size / effective entry price.
C12_CostModel ==
    [][/\ OpensTrade =>
            LET t == trades'[Len(trades')]
                p == df[i].close
            IN  /\ t.position_type = position'
                /\ t.size = RDiv(RMul(capital, config.max_position_size), t.entry_price)
                /\ position' = "LONG" =>
                      /\ t.entry_price = BuyPrice(p)
                      /\ capital' = RSub(capital, BuyOutlay(t.size, t.entry_price))
                /\ position' = "SHORT" =>
                      /\ t.entry_price = SellPrice(p)
                      /\ capital' = RAdd(capital, SellIncome(t.size, t.entry_price))
       /\ ClosesTrade =>
            LET t == trades'[Len(trades')]
                p == df[i].close
            IN  /\ IsClosed(t)
                /\ t.position_type = position
                /\ position = "SHORT" =>
                      /\ t.exit_price = BuyPrice(p)
                      /\ capital' = RSub(capital, BuyOutlay(t.size, t.exit_price))
                /\ position = "LONG" =>
                      /\ t.exit_price = SellPrice(p)
                      /\ capital' = RAdd(capital, SellIncome(t.size, t.exit_price))]_vars

\* a long and a short trade have been opened and closed under non-zero
\* slippage and commission
C12_Witness ==
    /\ config.slippage # Zero
    /\ config.commission # Zero
    /\ \E m, n \in 1..Len(trades) :
          /\ IsClosed(trades[m]) /\ trades[m].position_type = "LONG"
          /\ IsClosed(trades[n]) /\ trades[n].position_type = "SHORT"
          /\ trades[m].exit_price # trades[m].entry_price

(***************************************************************************)
(* C13.  The realized PnL of a close.                                      *)
(***************************************************************************)
\* C13: a close records pnl = (exit - entry) * size for LONG and
\* (entry - exit) * size for SHORT, and pnl_pct = pnl / (entry * size) * 100,
\* where exit is the effective exit price and entry and size are the values
\* the record of the same trade has held since it was opened.
C13_RealizedPnl ==
    [][ClosesTrade =>
          LET o == trades[Len(trades)]
              t == trades'[Len(trades)]
          IN  /\ ~IsClosed(o)
              /\ IsClosed(t)
              /\ t.entry_price = o.entry_price
              /\ t.size = o.size
              /\ t.entry_time = o.entry_time
              /\ t.position_type = o.position_type
              /\ o.position_type = "LONG" =>
                    t.pnl = RMul(RSub(t.exit_price, o.entry_price), o.size)
              /\ o.position_type = "SHORT" =>
                    t.pnl = RMul(RSub(o.entry_price, t.exit_price), o.size)
              /\ t.pnl_pct = RMul(RDiv(t.pnl, RMul(o.entry_price, o.size)), Hundred)]_vars

\* a winning long and a losing short have been closed
C13_Witness ==
    \E m, n \in 1..Len(trades) :
        /\ IsClosed(trades[m]) /\ trades[m].position_type = "LONG"
        /\ RGt(trades[m].pnl, Zero) /\ RGt(trades[m].pnl_pct, Zero)
        /\ IsClosed(trades[n]) /\ trades[n].position_type = "SHORT"
        /\ RLt(trades[n].pnl, Zero) /\ trades[n].size # One

(***************************************************************************)
(* One trade under direct calls of _open_long or _open_short and then      *)
(* _close_position on a new engine, with round prices and rates.  `calls`  *)
(* logs the calls with the quoted price.                                   *)
(***************************************************************************)
\* initial_capital 10,000, commission 0.1 %, slippage 0.05 %, half of the
\* capital per position
RoundConfig ==
    [initial_capital |-> R(10000, 1), commission |-> R(1, 1000), slippage |-> R(1, 2000),
     max_position_size |-> R(1, 2), stop_loss |-> R(1, 3), take_profit |-> R(1, 2)]

\* the `price` argument of the three methods
RoundPrices == {R(90, 1), R(100, 1), R(110, 1), R(120, 1)}

\* the `reason` argument of _close_position
Reasons == {"STOP_LOSS", "TAKE_PROFIT", "SIGNAL", "FINAL"}

\* BacktestEngine.__init__ under RoundConfig
InitTrade ==
    /\ config = RoundConfig
    /\ strategy = BaseStrategy(Params(config))
    /\ capital = config.initial_capital
    /\ position = None
    /\ position_size = Zero
    /\ entry_price = Zero
    /\ trades = <<>>
    /\ equity_curve = <<>>
    /\ df = <<>>
    /\ i = 0
    /\ pc = "idle"
    /\ calls = <<>>
    /\ results = None
    /\ run_no = 0
    /\ first_results = None
    /\ NoExecutor

\* _open_long or _open_short is called on the new engine
TradeOpen ==
    /\ position = None
    /\ trades = <<>>
    /\ \E price \in RoundPrices :
          \/ /\ SetEngine(_open_long(Engine, config, price, 1))
             /\ calls' = Append(calls, Call("_open_long", price, position))
          \/ /\ SetEngine(_open_short(Engine, config, price, 1))
             /\ calls' = Append(calls, Call("_open_short", price, position))
    /\ UNCHANGED <<config, strategy, equity_curve, df, i, pc, results, run_no, first_results>>
    /\ UNCHANGED executor_vars

\* _close_position is called on the held position
TradeClose ==
    /\ position # None
    /\ \E price \in RoundPrices, reason \in Reasons :
          /\ SetEngine(_close_position(Engine, config, price, 2, reason))
          /\ calls' = Append(calls, Call("_close_position", price, position))
    /\ UNCHANGED <<config, strategy, equity_curve, df, i, pc, results, run_no, first_results>>
    /\ UNCHANGED executor_vars

NextTrade == TradeOpen \/ TradeClose

SpecTrade == InitTrade /\ [][NextTrade]_vars

(***************************************************************************)
(* C14.  The worked scenario: LONG opened at 100, closed by signal at 110. *)
(***************************************************************************)
\* a positive amount x as it is shown with the decimals of `unit` (100 for
\* two decimals), in units of the last decimal, rounded half up
Shown(x, unit) ==
    (x[1] \div x[2]) * unit + (2 * (x[1] % x[2]) * unit + x[2]) \div (2 * x[2])

\* the position of the scenario has been opened
LongOpenedAt100 ==
    /\ config = RoundConfig
    /\ Len(calls) >= 1
    /\ calls[1] = Call("_open_long", R(100, 1), None)

\* the position of the scenario has been closed
ClosedAt110 ==
    /\ LongOpenedAt100
    /\ Len(calls) = 2
    /\ calls[2] = Call("_close_position", R(110, 1), "LONG")
    /\ trades[1].exit_reason = "SIGNAL"

\* the figures the scenario has before the close
ScenarioEntry ==
    LongOpenedAt100 /\ Len(calls) = 1 =>
        /\ position = "LONG"
        /\ entry_price = R(10005, 100)
        /\ trades[1].entry_price = R(10005, 100)
        /\ Shown(position_size, 1000) = 49975
        /\ trades[1].size = position_size
        /\ Shown(RSub(config.initial_capital, capital), 100) = 500500
        /\ Shown(capital, 100) = 499500

\* C14 as stated: entry at 100.05, size about 49.975, capital after entry
\* about 4,995.00; exit at 109.945, proceeds about 5,494.01, exit commission
\* about 5.49, capital after exit about 10,483.52, realized pnl about 494.5,
\* pnl_pct about 9.88, exit reason SIGNAL.
C14_WorkedScenarioAsStated ==
    /\ ScenarioEntry
    /\ ClosedAt110 =>
          LET t == trades[1]
          IN  /\ t.entry_price = R(10005, 100)
              /\ Shown(t.size, 1000) = 49975
              /\ t.exit_price = R(109945, 1000)
              /\ Shown(RMul(t.size, t.exit_price), 100) = 549401
              /\ Shown(t.exit_commission, 100) = 549
              /\ Shown(capital, 100) = 1048352
              /\ Shown(t.pnl, 10) = 4945
              /\ Shown(t.pnl_pct, 100) = 988
              /\ t.exit_reason = "SIGNAL"

\* C14, amended: as stated, with proceeds about 5,494.50, capital after
\* exit about 10,484.01 and pnl_pct about 9.89.
C14_WorkedScenario ==
    /\ ScenarioEntry
    /\ ClosedAt110 =>
          LET t == trades[1]
          IN  /\ t.entry_price = R(10005, 100)
              /\ Shown(t.size, 1000) = 49975
              /\ t.exit_price = R(109945, 1000)
              /\ Shown(RMul(t.size, t.exit_price), 100) = 549450
              /\ Shown(t.exit_commission, 100) = 549
              /\ Shown(capital, 100) = 1048401
              /\ Shown(t.pnl, 10) = 4945
              /\ Shown(t.pnl_pct, 100) = 989
              /\ t.exit_reason = "SIGNAL"
              /\ position = None

C14_Witness == ClosedAt110 /\ IsClosed(trades[1])

(***************************************************************************)
(* Engines built from configurations that lack one of the keys the engine  *)
(* reads.                                                                  *)
(***************************************************************************)
\* the keys of config['trading'] and config['backtest'] the engine reads
ConfigKeys == {"initial_capital", "commission", "slippage", "max_position_size"}

\* the configurations, and each with one key missing
PartialConfigs ==
    Configs \cup
    { [f \in DOMAIN c \ {k} |-> c[f]] : c \in Configs, k \in ConfigKeys }

\* BacktestEngine.__init__, lines 27-29: the subscripts that raise KeyError
init_raises(cfg) == ~({"initial_capital", "commission", "slippage"} \subseteq DOMAIN cfg)

\* BacktestEngine.__init__ under any of these configurations: the
\* constructor raises, or leaves a new engine
InitConfig ==
    /\ config \in PartialConfigs
    /\ strategy = BaseStrategy(Params(config))
    /\ capital = IF init_raises(config) THEN Zero ELSE config.initial_capital
    /\ position = None
    /\ position_size = Zero
    /\ entry_price = Zero
    /\ trades = <<>>
    /\ equity_curve = <<>>
    /\ df = <<>>
    /\ i = 0
    /\ pc = IF init_raises(config) THEN "raised" ELSE "idle"
    /\ calls = <<>>
    /\ results = None
    /\ run_no = 0
    /\ first_results = None
    /\ NoExecutor

SpecConfig == InitConfig /\ [][Next]_vars

(***************************************************************************)
(* C15.  Configuration errors.                                             *)
(***************************************************************************)
\* C15: an error of the configuration is raised at construction or before
\* the first bar is processed, never mid-run: when it is raised, no bar has
\* been processed and recorded yet.
C15_ConfigErrorsAtSetup ==
    pc = "raised" => equity_curve = <<>>

(***************************************************************************)
(* C16.  The held position.                                                *)
(***************************************************************************)
\* C16: whenever the engine holds a position, its entry price and its size
\* are positive.
C16_HeldPositionPositive ==
    position # None => RGt(entry_price, Zero) /\ RGt(position_size, Zero)

(***************************************************************************)
(* C17.  Closed trade records.                                             *)
(***************************************************************************)
\* C17: a closed trade record stays in the ledger at its place and no step
\* of the run (open, skipped open, close, forced liquidation) changes any
\* of its fields.
C17_ClosedTradeImmutable ==
    [][\A k \in 1..Len(trades) :
          IsClosed(trades[k]) => Len(trades') >= k /\ trades'[k] = trades[k]]_vars

\* a run has ended with a forced liquidation after it had closed a trade,
\* opened another and skipped an open
C17_Witness ==
    /\ pc = "done"
    /\ Len(trades) >= 2
    /\ trades[1].exit_reason # "FINAL"
    /\ trades[Len(trades)].exit_reason = "FINAL"
    /\ results.trades = trades

(***************************************************************************)
(* C18.  check_stop_loss and check_take_profit.                            *)
(***************************************************************************)
\* the answers the two checks must give for strategy s at price p: the
\* price has moved against (in favour of) the recorded entry price by at
\* least the threshold
StopLossDue(s, p) ==
    \/ s.position = "LONG"  /\ RLe(p, RMul(s.entry_price, RSub(One, s.params.stop_loss)))
    \/ s.position = "SHORT" /\ RGe(p, RMul(s.entry_price, RAdd(One, s.params.stop_loss)))

TakeProfitDue(s, p) ==
    \/ s.position = "LONG"  /\ RGe(p, RMul(s.entry_price, RAdd(One, s.params.take_profit)))
    \/ s.position = "SHORT" /\ RLe(p, RMul(s.entry_price, RSub(One, s.params.take_profit)))

\* C18: for every price, check_stop_loss and check_take_profit are false
\* when the strategy records no position or entry price 0; otherwise
\* check_stop_loss is true exactly when (entry - price) / entry >= stop_loss
\* for LONG, (price - entry) / entry >= stop_loss for SHORT, and
\* check_take_profit exactly when the mirrored gain reaches take_profit; the
\* two are never true for the same price; asking them changes no state and
\* the answers given are these.
C18_StopChecks ==
    /\ [](\A p \in Prices :
            LET sl == check_stop_loss(strategy, p)
                tp == check_take_profit(strategy, p)
            IN  /\ strategy.position = None \/ strategy.entry_price = Zero => ~sl /\ ~tp
                /\ strategy.position # None /\ strategy.entry_price # Zero =>
                      /\ sl <=> StopLossDue(strategy, p)
                      /\ tp <=> TakeProfitDue(strategy, p)
                /\ ~(sl /\ tp))
    /\ [][Len(calls') = 2 /\ calls'[1].m = "check_stop_loss" =>
            /\ strategy' = strategy
            /\ calls'[1].r[2] = check_stop_loss(strategy, calls'[1].r[1])
            /\ calls'[2].r[2] = check_take_profit(strategy, calls'[1].r[1])
            /\ calls'[2].r[1] = calls'[1].r[1]]_vars

\* the checks have been asked of a long strategy at the price where the
\* loss is exactly the threshold
C18_Witness ==
    /\ Len(calls) = 2
    /\ calls[1].m = "check_stop_loss"
    /\ calls[1].r[2]
    /\ ~calls[2].r[2]
    /\ strategy.position = "LONG"
    /\ RDiv(RSub(strategy.entry_price, calls[1].r[1]), strategy.entry_price)
          = strategy.params.stop_loss

(***************************************************************************)
(* C19.  The maximum drawdown.                                             *)
(***************************************************************************)
\* the highest equity among snapshots 1..k
Peak(k) ==
    CHOOSE x \in {equity_curve[j].equity : j \in 1..k} :
        \A j \in 1..k : RLe(equity_curve[j].equity, x)

\* 100 * (equity - running peak) / running peak at snapshot k
DrawdownPct(k) ==
    RMul(RDiv(RSub(equity_curve[k].equity, Peak(k)), Peak(k)), Hundred)

Return(k) ==
    RSub(RDiv(equity_curve[k].equity, equity_curve[k - 1].equity), One)

\* the per-bar returns have no standard deviation (fewer than two of them)
\* or a standard deviation of zero (all equal)
NoSpread ==
    \/ Len(equity_curve) <= 2
    \/ \A j, k \in 2..Len(equity_curve) : Return(j) = Return(k)

OpenedOnLastSnapshot ==
    /\ pc = "loop"
    /\ i >= 1
    /\ Len(equity_curve) = i
    /\ position # None
    /\ trades[Len(trades)].entry_time = i

\* the capital held just before the open of the last trade
CapitalBeforeOpen ==
    LET t == trades[Len(trades)]
        notional == RMul(t.size, t.entry_price)
    IN  IF t.position_type = "LONG"
        THEN RAdd(capital, RAdd(notional, t.commission))
        ELSE RSub(capital, RSub(notional, t.commission))

\* what the slippage of the entry costs: size * |effective price - close|
SlippageCost ==
    LET t == trades[Len(trades)]
    IN  RMul(t.size, RAbs(RSub(t.entry_price, df[i].close)))

\* C21: on the bar where a position is opened, the recorded equity is the
\* capital held just before the open less the entry commission and the
\* slippage cost: the open does not move the equity by the notional.
C21_OpenKeepsEquity ==
    OpenedOnLastSnapshot =>
        equity_curve[i].equity =
            RSub(CapitalBeforeOpen,
                 RAdd(trades[Len(trades)].commission, SlippageCost))

(***************************************************************************)
(* The backtest engine with the momentum strategy, on a series that        *)
(* starts with the ten quiet bars the strategy needs before it can enter.  *)
(***************************************************************************)
\* a bar without decision columns set
QuietBar(p) ==
    [close |-> p, long_signal |-> FALSE, short_signal |-> FALSE,
     exit_long_signal |-> FALSE, exit_short_signal |-> FALSE]

InitMomentum ==
    /\ config \in Configs
    /\ strategy = MomentumDipBuyingStrategy(Params(config))
    /\ capital = config.initial_capital
    /\ position = None
    /\ position_size = Zero
    /\ entry_price = Zero
    /\ trades = <<>>
    /\ equity_curve = <<>>
    /\ \E p \in Prices : df = [k \in 1..WarmUpBars(strategy) |-> QuietBar(p)]
    /\ i = 0
    /\ pc = "idle"
    /\ calls = <<>>
    /\ results = None
    /\ run_no = 0
    /\ first_results = None
    /\ NoExecutor

SpecMomentum == InitMomentum /\ [][Next]_vars

(***************************************************************************)
(* C22.  Momentum pyramiding.                                              *)
(***************************************************************************)
\* bar i has been processed; the position was opened on an earlier bar and
\* its close is more than dip_threshold below the price of that entry
DipBelowFirstEntry ==
    /\ pc = "loop"
    /\ i >= 1
    /\ position = "LONG"
    /\ trades[Len(trades)].entry_time < i
    /\ strategy.first_entry_price # Zero
    /\ RGt(RDiv(RSub(strategy.first_entry_price, df[i].close), strategy.first_entry_price),
           strategy.dip_threshold)

\* C22: a bar whose close is more than dip_threshold below the first entry
\* price, while the first LONG entry is held, makes the driver execute a
\* second LONG entry: after the bar the strategy has has_added_position
\* true, second_entry_price the close of a bar and avg_entry_price the
\* size-weighted mean of the two entries, and the engine holds both sizes.
C22_DipAddsSecondEntry ==
    DipBelowFirstEntry =>
        /\ strategy.has_added_position
        /\ \E k \in 1..i : strategy.second_entry_price = df[k].close
        /\ strategy.avg_entry_price =
              RDiv(RAdd(RMul(strategy.first_entry_price, strategy.first_position_size),
                        RMul(strategy.second_entry_price, strategy.second_position_size)),
                   RAdd(strategy.first_position_size, strategy.second_position_size))
        /\ position_size = RAdd(strategy.first_position_size, strategy.second_position_size)

(***************************************************************************)
(* BreakoutPullbackStrategy under the entry questions of a flat driver:    *)
(* on every bar should_enter_long, then, if that is false,                 *)
(* should_enter_short (run(), lines 84-91).  The bars carry high, low,     *)
(* close and volume; the series starts with the quiet bars of the          *)
(* strategy's lookback.                                                    *)
(***************************************************************************)
\* the bars read after the quiet start
MaxBreakoutBars == 4

\* BreakoutPullbackStrategy.__init__
BreakoutPullbackStrategy(params, lookback_period) ==
    [variant |-> "breakout"] @@
    [lookback_period |-> lookback_period, pullback_ratio |-> R(1, 2),
     use_volume |-> TRUE, volume_multiplier |-> R(3, 2),
     resistance_level |-> NoPrice, support_level |-> NoPrice,
     breakout_high |-> NoPrice, breakout_low |-> NoPrice,
     awaiting_pullback |-> FALSE, pullback_direction |-> None] @@ BaseStrategy(params)

Candle(c, h, l, v) == [close |-> c, high |-> h, low |-> l, volume |-> v]

\* candles without range at three prices and two volumes, and candles
\* whose close lies above the high or below the low
Candles ==
    { Candle(c, c, c, v) : c \in {R(2, 1), R(5, 2), R(3, 1)}, v \in {R(1, 1), R(4, 1)} }
    \cup { Candle(R(4, 1), R(3, 1), R(3, 1), v) : v \in {R(4, 1), R(16, 1)} }
    \cup { Candle(R(1, 1), R(2, 1), R(2, 1), v) : v \in {R(4, 1), R(16, 1)} }

RMin(a, b) == IF RLt(b, a) THEN b ELSE a

\* Series.rolling(window).max / .min / .mean at bar k: nan before the
\* window is full
RECURSIVE rolling_max(_, _, _, _)
rolling_max(data, col, k, window) ==
    IF k < window THEN NaN
    ELSE IF window = 1 THEN data[k][col]
    ELSE RMax(data[k][col], rolling_max(data, col, k - 1, window - 1))

RECURSIVE rolling_min(_, _, _, _)
rolling_min(data, col, k, window) ==
    IF k < window THEN NaN
    ELSE IF window = 1 THEN data[k][col]
    ELSE RMin(data[k][col], rolling_min(data, col, k - 1, window - 1))

RECURSIVE rolling_sum(_, _, _, _)
rolling_sum(data, col, k, window) ==
    IF k < window THEN NaN
    ELSE IF window = 1 THEN data[k][col]
    ELSE RAdd(data[k][col], rolling_sum(data, col, k - 1, window - 1))

\* BreakoutPullbackStrategy.calculate_signals, lines 58-59 and 62: the
\* windows end with bar k itself
resistance(s, data, k) == rolling_max(data, "high", k, s.lookback_period)

support(s, data, k) == rolling_min(data, "low", k, s.lookback_period)

avg_volume(s, data, k) ==
    RDiv(rolling_sum(data, "volume", k, s.lookback_period), <<s.lookback_period, 1>>)

\* lines 71-74 and 76-79: shift(1) is nan on the first bar
resistance_breakout(s, data, k) ==
    /\ k >= 2
    /\ RGt(data[k].close, resistance(s, data, k))
    /\ RLe(data[k - 1].close, resistance(s, data, k - 1))

support_breakdown(s, data, k) ==
    /\ k >= 2
    /\ RLt(data[k].close, support(s, data, k))
    /\ RGe(data[k - 1].close, support(s, data, k - 1))

\* lines 82-85
volume_confirmed(s, data, k) ==
    IF s.use_volume
    THEN RGt(data[k].volume, RMul(avg_volume(s, data, k), s.volume_multiplier))
    ELSE TRUE

\* BreakoutPullbackStrategy._confirm_reversal (k - 1 is the index)
_confirm_reversal(s, data, k, direction) ==
    IF k - 1 < 3 THEN FALSE
    ELSE IF direction = "up"
         THEN /\ RGt(data[k].close, data[k - 1].close)
              /\ RGt(data[k - 1].close, data[k - 2].close)
              /\ ~s.use_volume \/ RGt(data[k].volume, data[k - 1].volume)
         ELSE /\ RLt(data[k].close, data[k - 1].close)
              /\ RLt(data[k - 1].close, data[k - 2].close)
              /\ ~s.use_volume \/ RGt(data[k].volume, data[k - 1].volume)

\* the reset leaves the pending direction in place
_reset_breakout_state_KeepsDirection(s) ==
    [s EXCEPT !.awaiting_pullback = FALSE,
              !.breakout_high = NoPrice, !.breakout_low = NoPrice]

\* BreakoutPullbackStrategy._reset_breakout_state
_reset_breakout_state(s) ==
    [s EXCEPT !.awaiting_pullback = FALSE, !.pullback_direction = None,
              !.breakout_high = NoPrice, !.breakout_low = NoPrice]

\* BreakoutPullbackStrategy.should_enter_long: the answer and the strategy
\* it leaves
breakout_should_enter_long(s, data, k) ==
    IF k - 1 < s.lookback_period + 5
    THEN [answer |-> FALSE, strategy |-> s]
    ELSE IF resistance_breakout(s, data, k) /\ volume_confirmed(s, data, k)
    THEN [answer |-> FALSE,
          strategy |-> [s EXCEPT !.resistance_level = resistance(s, data, k - 1),
                                 !.breakout_high = data[k].high,
                                 !.awaiting_pullback = TRUE,
                                 !.pullback_direction = "long"]]
    ELSE IF /\ s.awaiting_pullback /\ s.pullback_direction = "long"
            /\ s.resistance_level # NoPrice
            /\ s.breakout_high # NoPrice /\ s.breakout_high # Zero
            /\ LET pullback_level ==
                       RAdd(s.resistance_level,
                            RMul(RSub(s.breakout_high, s.resistance_level),
                                 RSub(One, s.pullback_ratio)))
               IN  /\ RLe(data[k - 1].close, pullback_level)
                   /\ RGt(data[k].close, data[k - 1].close)
                   /\ _confirm_reversal(s, data, k, "up")
    THEN [answer |-> TRUE, strategy |-> _reset_breakout_state(s)]
    ELSE [answer |-> FALSE, strategy |-> s]

\* BreakoutPullbackStrategy.should_enter_short
breakout_should_enter_short(s, data, k) ==
    IF k - 1 < s.lookback_period + 5
    THEN [answer |-> FALSE, strategy |-> s]
    ELSE IF support_breakdown(s, data, k) /\ volume_confirmed(s, data, k)
    THEN [answer |-> FALSE,
          strategy |-> [s EXCEPT !.support_level = support(s, data, k - 1),
                                 !.breakout_low = data[k].low,
                                 !.awaiting_pullback = TRUE,
                                 !.pullback_direction = "short"]]
    ELSE IF /\ s.awaiting_pullback /\ s.pullback_direction = "short"
            /\ s.support_level # NoPrice
            /\ s.breakout_low # NoPrice /\ s.breakout_low # Zero
            /\ LET pullback_level ==
                       RSub(s.support_level,
                            RMul(RSub(s.support_level, s.breakout_low),
                                 RSub(One, s.pullback_ratio)))
               IN  /\ RGe(data[k - 1].close, pullback_level)
                   /\ RLt(data[k].close, data[k - 1].close)
                   /\ _confirm_reversal(s, data, k, "down")
    THEN [answer |-> TRUE, strategy |-> _reset_breakout_state(s)]
    ELSE [answer |-> FALSE, strategy |-> s]

\* a new strategy with lookback_period 2 and a series that starts with
\* lookback_period + 5 quiet candles
InitBreakout ==
    /\ config = CHOOSE c \in Configs : c.commission = Zero
    /\ strategy = BreakoutPullbackStrategy(Params(config), 2)
    /\ capital = config.initial_capital
    /\ position = None
    /\ position_size = Zero
    /\ entry_price = Zero
    /\ trades = <<>>
    /\ equity_curve = <<>>
    /\ df = [k \in 1..(strategy.lookback_period + 5) |->
                Candle(R(2, 1), R(2, 1), R(2, 1), R(1, 1))]
    /\ i = 0
    /\ pc = "next"
    /\ calls = <<>>
    /\ results = None
    /\ run_no = 0
    /\ first_results = None
    /\ NoExecutor

StrategyFrame == <<config, capital, position, position_size, entry_price, trades,
                   equity_curve, results, run_no, first_results>>

\* the driver's loop takes the next bar
BreakoutNextBar ==
    /\ pc = "next"
    /\ \/ /\ i < Len(df)
          /\ df' = df
       \/ /\ i = Len(df)
          /\ Len(df) < strategy.lookback_period + 5 + MaxBreakoutBars
          /\ \E bar \in Candles : df' = Append(df, bar)
    /\ i' = i + 1
    /\ pc' = "enter_long"
    /\ calls' = <<>>
    /\ UNCHANGED strategy
    /\ UNCHANGED StrategyFrame
    /\ UNCHANGED executor_vars

\* the driver asks should_enter_long for the bar
AskEnterLong ==
    /\ pc = "enter_long"
    /\ LET r == breakout_should_enter_long(strategy, df, i)
       IN  /\ strategy' = r.strategy
           /\ calls' = Append(calls, Call("should_enter_long", r.answer, strategy))
           /\ pc' = IF r.answer THEN "next" ELSE "enter_short"
    /\ UNCHANGED <<df, i>>
    /\ UNCHANGED StrategyFrame
    /\ UNCHANGED executor_vars

\* should_enter_long has answered false: the driver asks should_enter_short
AskEnterShort ==
    /\ pc = "enter_short"
    /\ LET r == breakout_should_enter_short(strategy, df, i)
       IN  /\ strategy' = r.strategy
           /\ calls' = Append(calls, Call("should_enter_short", r.answer, strategy))
           /\ pc' = "next"
    /\ UNCHANGED <<df, i>>
    /\ UNCHANGED StrategyFrame
    /\ UNCHANGED executor_vars

NextBreakout == BreakoutNextBar \/ AskEnterLong \/ AskEnterShort

SpecBreakout == InitBreakout /\ [][NextBreakout]_vars

(***************************************************************************)
(* C23.  Detection of a breakout.                                          *)
(***************************************************************************)
\* the highest high and the lowest low of the lookback_period bars before
\* bar k
HighestHighBefore(k) == rolling_max(df, "high", k - 1, strategy.lookback_period)

LowestLowBefore(k) == rolling_min(df, "low", k - 1, strategy.lookback_period)

ValidCandle(b) == RLe(b.low, b.close) /\ RLe(b.close, b.high)

\* should_enter_long has just been asked for bar i, a bar after the warm-up
\* with valid OHLC that closes above the highest high of the lookback bars
\* before it, after a close that was not above the highest high of the
\* bars before that one, with confirming volume
UpBreakoutAsked ==
    /\ Len(calls) = 1
    /\ calls[1].m = "should_enter_long"
    /\ i - 1 >= strategy.lookback_period + 5
    /\ ValidCandle(df[i])
    /\ RGt(df[i].close, HighestHighBefore(i))
    /\ RLe(df[i - 1].close, HighestHighBefore(i - 1))
    /\ volume_confirmed(strategy, df, i)

\* C23: should_enter_long, asked for such a bar, records the breakout
\* (resistance level, breakout high) and leaves the strategy awaiting a
\* pullback with direction long.
C23_BreakoutRecorded ==
    UpBreakoutAsked =>
        /\ strategy.awaiting_pullback
        /\ strategy.pullback_direction = "long"
        /\ strategy.resistance_level = HighestHighBefore(i)
        /\ strategy.breakout_high = df[i].high

(***************************************************************************)
(* C24.  Occupancy of the grid ladder.                                     *)
(***************************************************************************)
\* GridTradingStrategy._get_crossed_grid, direction 'down' (reached only
\* where the truth value of grid_prices is defined and true)
RECURSIVE crossed_down_from(_, _, _, _)
crossed_down_from(gp, prev_price, curr_price, k) ==
    IF k > Len(gp) THEN NoLevel
    ELSE IF RGt(prev_price, gp[k]) /\ RGe(gp[k], curr_price) THEN k - 1
    ELSE crossed_down_from(gp, prev_price, curr_price, k + 1)

\* GridTradingStrategy._has_position_at_grid
_has_position_at_grid(s, grid_level) == grid_level \in DOMAIN s.grid_positions

\* lines 72, 94, 116 and 140: `current_index < 1 or not self.grid_prices`
\* raises ValueError when it takes the truth value of several levels
grid_decision_raises(s, k) == k - 1 >= 1 /\ grid_prices_raises(s.grid_prices)

\* GridTradingStrategy.should_enter_long, where it does not raise
grid_should_enter_long(s, data, k) ==
    IF k - 1 < 1 \/ ~grid_prices_truth(s.grid_prices) THEN FALSE
    ELSE LET crossed_grid ==
                 crossed_down_from(s.grid_prices, data[k - 1].close, data[k].close, 1)
         IN  crossed_grid # NoLevel /\ ~_has_position_at_grid(s, crossed_grid)

\* a grid line lies between the two prices, the first above it
CrossesDown(prev_price, curr_price) ==
    \E k \in 1..Len(strategy.grid_prices) :
        RGt(prev_price, strategy.grid_prices[k]) /\ RGe(strategy.grid_prices[k], curr_price)

\* C24: when update_position(None, 0, 0) closes the LONG of a grid strategy
\* with its grid set up, no grid level is occupied afterwards, and
\* should_enter_long answers true for every downward crossing of a grid
\* line.
C24_GridReleasedWhenFlat ==
    [][(/\ strategy.variant = "grid"
        /\ strategy.grid_prices # <<>>
        /\ strategy.position = "LONG"
        /\ calls' = <<Call("update_position", <<None, Zero, Zero>>, None)>>)
       => /\ strategy'.position = None
          /\ DOMAIN strategy'.grid_positions = {}
          /\ \A prev_price \in Prices, curr_price \in Prices :
                CrossesDown(prev_price, curr_price) =>
                    /\ ~grid_decision_raises(strategy', 2)
                    /\ grid_should_enter_long(strategy',
                                              <<[close |-> prev_price], [close |-> curr_price]>>,
                                              2)]_vars

(***************************************************************************)
(* The indicator strategies: moving-average crossover, RSI, Bollinger      *)
(* bands and MACD.  Their decision methods read columns that               *)
(* calculate_signals derives from the closes and never assign to the       *)
(* strategy.                                                               *)
(***************************************************************************)
\* MACrossoverStrategy.__init__
MACrossoverStrategy(params, ma_short, ma_long) ==
    [variant |-> "ma"] @@
    [ma_short_period |-> ma_short, ma_long_period |-> ma_long] @@ BaseStrategy(params)

\* RSIStrategy.__init__
RSIStrategy(params, rsi_period) ==
    [variant |-> "rsi"] @@
    [rsi_period |-> rsi_period, oversold |-> R(30, 1), overbought |-> R(70, 1)]
    @@ BaseStrategy(params)

\* BollingerBandsStrategy.__init__
BollingerBandsStrategy(params, bb_period) ==
    [variant |-> "bollinger"] @@
    [bb_period |-> bb_period, bb_std |-> R(2, 1), mode |-> "mean_reversion"]
    @@ BaseStrategy(params)

\* MACDStrategy.__init__
MACDStrategy(params, fast_period, slow_period, signal_period) ==
    [variant |-> "macd"] @@
    [fast_period |-> fast_period, slow_period |-> slow_period,
     signal_period |-> signal_period, use_histogram |-> TRUE, use_zero_cross |-> FALSE]
    @@ BaseStrategy(params)

\* Indicators.sma: data.rolling(window=period).mean()
sma(data, col, k, period) == RDiv(rolling_sum(data, col, k, period), <<period, 1>>)

\* the columns ma_short and ma_long of MACrossoverStrategy.calculate_signals
ma_short(s, data, k) == sma(data, "close", k, s.ma_short_period)

ma_long(s, data, k) == sma(data, "close", k, s.ma_long_period)

\* the local golden_cross and death_cross of the four methods
golden_cross(s, data, k) ==
    /\ RLe(ma_short(s, data, k - 1), ma_long(s, data, k - 1))
    /\ RGt(ma_short(s, data, k), ma_long(s, data, k))

death_cross(s, data, k) ==
    /\ RGe(ma_short(s, data, k - 1), ma_long(s, data, k - 1))
    /\ RLt(ma_short(s, data, k), ma_long(s, data, k))

\* MACrossoverStrategy.should_enter_long
ma_should_enter_long(s, data, k) ==
    IF k - 1 < s.ma_long_period THEN FALSE ELSE golden_cross(s, data, k)

\* MACrossoverStrategy.should_enter_short, should_exit_long, should_exit_short
ma_should_enter_short(s, data, k) ==
    IF k - 1 < s.ma_long_period THEN FALSE ELSE death_cross(s, data, k)

ma_should_exit_long(s, data, k) ==
    IF k - 1 < s.ma_long_period THEN FALSE ELSE death_cross(s, data, k)

ma_should_exit_short(s, data, k) ==
    IF k - 1 < s.ma_long_period THEN FALSE ELSE golden_cross(s, data, k)

\* Indicators.rsi: delta = data.diff(); the rolling means of the gains and
\* of the losses
RECURSIVE rolling_gain(_, _, _)
rolling_gain(data, k, window) ==
    IF k < window THEN NaN
    ELSE LET delta == IF k = 1 THEN NaN ELSE RSub(data[k].close, data[k - 1].close)
             gain  == IF RGt(delta, Zero) THEN delta ELSE Zero
         IN  IF window = 1 THEN gain ELSE RAdd(gain, rolling_gain(data, k - 1, window - 1))

RECURSIVE rolling_loss(_, _, _)
rolling_loss(data, k, window) ==
    IF k < window THEN NaN
    ELSE LET delta == IF k = 1 THEN NaN ELSE RSub(data[k].close, data[k - 1].close)
             loss  == IF RLt(delta, Zero) THEN RNeg(delta) ELSE Zero
         IN  IF window = 1 THEN loss ELSE RAdd(loss, rolling_loss(data, k - 1, window - 1))

\* rs = gain / loss, rsi = 100 - 100 / (1 + rs): 0 / 0 is nan, gain / 0 is
\* inf and gives 100
rsi(s, data, k) ==
    LET gain == RDiv(rolling_gain(data, k, s.rsi_period), <<s.rsi_period, 1>>)
        loss == RDiv(rolling_loss(data, k, s.rsi_period), <<s.rsi_period, 1>>)
    IN  IF IsNaN(gain) \/ IsNaN(loss) THEN NaN
        ELSE IF loss = Zero THEN (IF gain = Zero THEN NaN ELSE Hundred)
        ELSE RSub(Hundred, RDiv(Hundred, RAdd(One, RDiv(gain, loss))))

\* RSIStrategy.should_enter_long, should_enter_short, should_exit_long,
\* should_exit_short
rsi_should_enter_long(s, data, k) ==
    IF k - 1 < s.rsi_period + 1 THEN FALSE
    ELSE LET current_rsi == rsi(s, data, k)
             previous_rsi == rsi(s, data, k - 1)
         IN  \/ RLe(previous_rsi, s.oversold) /\ RGt(current_rsi, s.oversold)
             \/ RLt(current_rsi, RAdd(s.oversold, <<5, 1>>)) /\ RGt(current_rsi, previous_rsi)

rsi_should_enter_short(s, data, k) ==
    IF k - 1 < s.rsi_period + 1 THEN FALSE
    ELSE LET current_rsi == rsi(s, data, k)
             previous_rsi == rsi(s, data, k - 1)
         IN  \/ RGe(previous_rsi, s.overbought) /\ RLt(current_rsi, s.overbought)
             \/ RGt(current_rsi, RSub(s.overbought, <<5, 1>>)) /\ RLt(current_rsi, previous_rsi)

rsi_should_exit_long(s, data, k) ==
    IF k - 1 < s.rsi_period + 1 THEN FALSE
    ELSE LET current_rsi == rsi(s, data, k)
             previous_rsi == rsi(s, data, k - 1)
         IN  \/ RGe(current_rsi, s.overbought)
             \/ RLt(current_rsi, RSub(previous_rsi, <<5, 1>>))

rsi_should_exit_short(s, data, k) ==
    IF k - 1 < s.rsi_period + 1 THEN FALSE
    ELSE LET current_rsi == rsi(s, data, k)
             previous_rsi == rsi(s, data, k - 1)
         IN  \/ RLe(current_rsi, s.oversold)
             \/ RGt(current_rsi, RAdd(previous_rsi, <<5, 1>>))

\* data.rolling(window=period).std() for a window of two bars:
\* |a - b| / sqrt(2), with 7/5 for sqrt(2); nan for other windows
rolling_std(data, k, period) ==
    IF k < period \/ period # 2 THEN NaN
    ELSE RDiv(RAbs(RSub(data[k].close, data[k - 1].close)), R(7, 5))

\* Indicators.bollinger_bands and the columns of
\* BollingerBandsStrategy.calculate_signals
bb_middle(s, data, k) == sma(data, "close", k, s.bb_period)

bb_upper(s, data, k) ==
    RAdd(bb_middle(s, data, k), RMul(rolling_std(data, k, s.bb_period), s.bb_std))

bb_lower(s, data, k) ==
    RSub(bb_middle(s, data, k), RMul(rolling_std(data, k, s.bb_period), s.bb_std))

bb_percent(s, data, k) ==
    RDiv(RSub(data[k].close, bb_lower(s, data, k)),
         RSub(bb_upper(s, data, k), bb_lower(s, data, k)))

near_middle(s, data, k) ==
    RLt(RDiv(RAbs(RSub(data[k].close, bb_middle(s, data, k))), bb_middle(s, data, k)),
        R(5, 1000))

\* BollingerBandsStrategy.should_enter_long, should_enter_short,
\* should_exit_long, should_exit_short, mode 'mean_reversion'
bollinger_should_enter_long(s, data, k) ==
    IF k - 1 < s.bb_period + 1 THEN FALSE
    ELSE \/ /\ RLe(data[k - 1].close, bb_lower(s, data, k - 1))
            /\ RGt(data[k].close, bb_lower(s, data, k))
         \/ /\ RLt(Zero, bb_percent(s, data, k))
            /\ RLt(bb_percent(s, data, k), R(1, 10))
            /\ RGt(data[k].close, data[k - 1].close)

bollinger_should_enter_short(s, data, k) ==
    IF k - 1 < s.bb_period + 1 THEN FALSE
    ELSE \/ /\ RGe(data[k - 1].close, bb_upper(s, data, k - 1))
            /\ RLt(data[k].close, bb_upper(s, data, k))
         \/ /\ RLt(R(9, 10), bb_percent(s, data, k))
            /\ RLt(bb_percent(s, data, k), One)
            /\ RLt(data[k].close, data[k - 1].close)

bollinger_should_exit_long(s, data, k) ==
    IF k - 1 < s.bb_period + 1 THEN FALSE
    ELSE near_middle(s, data, k) \/ RGe(data[k].close, bb_upper(s, data, k))

bollinger_should_exit_short(s, data, k) ==
    IF k - 1 < s.bb_period + 1 THEN FALSE
    ELSE near_middle(s, data, k) \/ RLe(data[k].close, bb_lower(s, data, k))

\* Indicators.ema: data.ewm(span=period, adjust=False).mean()
RECURSIVE ema(_, _, _)
ema(data, k, period) ==
    IF k = 1 THEN data[1].close
    ELSE LET alpha == R(2, period + 1)
         IN  RAdd(RMul(alpha, data[k].close),
                  RMul(RSub(One, alpha), ema(data, k - 1, period)))

\* Indicators.macd: the MACD line, its signal line and the histogram
macd_line(s, data, k) == RSub(ema(data, k, s.fast_period), ema(data, k, s.slow_period))

RECURSIVE signal_line(_, _, _)
signal_line(s, data, k) ==
    IF k = 1 THEN macd_line(s, data, 1)
    ELSE LET alpha == R(2, s.signal_period + 1)
         IN  RAdd(RMul(alpha, macd_line(s, data, k)),
                  RMul(RSub(One, alpha), signal_line(s, data, k - 1)))

macd_histogram(s, data, k) == RSub(macd_line(s, data, k), signal_line(s, data, k))

\* the columns macd_golden_cross, macd_death_cross, histogram_increasing
\* and histogram_decreasing of MACDStrategy.calculate_signals
macd_golden_cross(s, data, k) ==
    /\ k >= 2
    /\ RGt(macd_line(s, data, k), signal_line(s, data, k))
    /\ RLe(macd_line(s, data, k - 1), signal_line(s, data, k - 1))

macd_death_cross(s, data, k) ==
    /\ k >= 2
    /\ RLt(macd_line(s, data, k), signal_line(s, data, k))
    /\ RGe(macd_line(s, data, k - 1), signal_line(s, data, k - 1))

histogram_increasing(s, data, k) ==
    k >= 2 /\ RGt(macd_histogram(s, data, k), macd_histogram(s, data, k - 1))

histogram_decreasing(s, data, k) ==
    k >= 2 /\ RLt(macd_histogram(s, data, k), macd_histogram(s, data, k - 1))

\* the builtin max of two integers
max(a, b) == IF a > b THEN a ELSE b

\* MACDStrategy.should_enter_long, should_enter_short, should_exit_long,
\* should_exit_short, with use_zero_cross false
macd_should_enter_long(s, data, k) ==
    IF k - 1 < max(s.slow_period, s.signal_period) + 1 THEN FALSE
    ELSE /\ macd_golden_cross(s, data, k)
         /\ s.use_histogram =>
               \/ RGt(macd_histogram(s, data, k), Zero)
               \/ histogram_increasing(s, data, k)

macd_should_enter_short(s, data, k) ==
    IF k - 1 < max(s.slow_period, s.signal_period) + 1 THEN FALSE
    ELSE /\ macd_death_cross(s, data, k)
         /\ s.use_histogram =>
               \/ RLt(macd_histogram(s, data, k), Zero)
               \/ histogram_decreasing(s, data, k)

macd_should_exit_long(s, data, k) ==
    IF k - 1 < max(s.slow_period, s.signal_period) + 1 THEN FALSE
    ELSE \/ macd_death_cross(s, data, k)
         \/ /\ s.use_histogram
            /\ RLt(macd_histogram(s, data, k), macd_histogram(s, data, k - 1))
            /\ RLt(macd_histogram(s, data, k - 1), macd_histogram(s, data, k - 2))
            /\ RLt(macd_histogram(s, data, k), RMul(macd_histogram(s, data, k - 1), R(1, 2)))

macd_should_exit_short(s, data, k) ==
    IF k - 1 < max(s.slow_period, s.signal_period) + 1 THEN FALSE
    ELSE \/ macd_golden_cross(s, data, k)
         \/ /\ s.use_histogram
            /\ RGt(macd_histogram(s, data, k), macd_histogram(s, data, k - 1))
            /\ RGt(macd_histogram(s, data, k - 1), macd_histogram(s, data, k - 2))
            /\ RGt(RAbs(macd_histogram(s, data, k)),
                   RMul(RAbs(macd_histogram(s, data, k - 1)), R(3, 2)))

\* BreakoutPullbackStrategy.should_exit_long, should_exit_short
breakout_should_exit_long(s, data, k) ==
    IF k - 1 < 5 THEN FALSE
    ELSE \/ support_breakdown(s, data, k)
         \/ /\ RGt(s.entry_price, Zero)
            /\ RGt(RDiv(RSub(s.entry_price, data[k].close), s.entry_price), R(3, 100))

breakout_should_exit_short(s, data, k) ==
    IF k - 1 < 5 THEN FALSE
    ELSE \/ resistance_breakout(s, data, k)
         \/ /\ RGt(s.entry_price, Zero)
            /\ RGt(RDiv(RSub(data[k].close, s.entry_price), s.entry_price), R(3, 100))
(***************************************************************************)
(* The strategies during their warm-up: a driver reads a series bar by     *)
(* bar and asks the decision methods, in any order, of a strategy that     *)
(* records no position or one a driver has reported.                       *)
(***************************************************************************)
DecisionMethods ==
    {"should_enter_long", "should_enter_short", "should_exit_long", "should_exit_short"}

\* the first index at which the guard of the method lets the bar through
MinLookback(s, m) ==
    IF s.variant = "ma" THEN s.ma_long_period
    ELSE IF s.variant = "rsi" THEN s.rsi_period + 1
    ELSE IF s.variant = "bollinger" THEN s.bb_period + 1
    ELSE IF s.variant = "macd" THEN max(s.slow_period, s.signal_period) + 1
    ELSE IF s.variant = "breakout"
    THEN (IF m \in {"should_enter_long", "should_enter_short"}
          THEN s.lookback_period + 5 ELSE 5)
    ELSE IF s.variant = "momentum"
    THEN (IF m = "should_enter_long" THEN 10
          ELSE IF m = "should_exit_long" THEN 5 ELSE 0)
    ELSE 0

\* strategy.<m>(df, k - 1): the answer and the strategy the call leaves
Decide(s, data, k, m) ==
    IF s.variant = "breakout" /\ m = "should_enter_long"
    THEN breakout_should_enter_long(s, data, k)
    ELSE IF s.variant = "breakout" /\ m = "should_enter_short"
    THEN breakout_should_enter_short(s, data, k)
    ELSE [strategy |-> s,
          answer |->
            IF s.variant = "ma"
            THEN (IF m = "should_enter_long" THEN ma_should_enter_long(s, data, k)
                  ELSE IF m = "should_enter_short" THEN ma_should_enter_short(s, data, k)
                  ELSE IF m = "should_exit_long" THEN ma_should_exit_long(s, data, k)
                  ELSE ma_should_exit_short(s, data, k))
            ELSE IF s.variant = "rsi"
            THEN (IF m = "should_enter_long" THEN rsi_should_enter_long(s, data, k)
                  ELSE IF m = "should_enter_short" THEN rsi_should_enter_short(s, data, k)
                  ELSE IF m = "should_exit_long" THEN rsi_should_exit_long(s, data, k)
                  ELSE rsi_should_exit_short(s, data, k))
            ELSE IF s.variant = "bollinger"
            THEN (IF m = "should_enter_long" THEN bollinger_should_enter_long(s, data, k)
                  ELSE IF m = "should_enter_short" THEN bollinger_should_enter_short(s, data, k)
                  ELSE IF m = "should_exit_long" THEN bollinger_should_exit_long(s, data, k)
                  ELSE bollinger_should_exit_short(s, data, k))
            ELSE IF s.variant = "macd"
            THEN (IF m = "should_enter_long" THEN macd_should_enter_long(s, data, k)
                  ELSE IF m = "should_enter_short" THEN macd_should_enter_short(s, data, k)
                  ELSE IF m = "should_exit_long" THEN macd_should_exit_long(s, data, k)
                  ELSE macd_should_exit_short(s, data, k))
            ELSE IF s.variant = "breakout"
            THEN (IF m = "should_exit_long" THEN breakout_should_exit_long(s, data, k)
                  ELSE breakout_should_exit_short(s, data, k))
            ELSE (IF m = "should_enter_long" THEN should_enter_long(s, data, k)
                  ELSE IF m = "should_enter_short" THEN should_enter_short(s, data, k)
                  ELSE IF m = "should_exit_long" THEN should_exit_long(s, data, k)
                  ELSE should_exit_short(s, data, k))]

\* the strategies, each with small periods
WarmUpStrategies(params) ==
    { MACrossoverStrategy(params, 1, 2),
      RSIStrategy(params, 1),
      BollingerBandsStrategy(params, 2),
      MACDStrategy(params, 1, 2, 2),
      BreakoutPullbackStrategy(params, 2),
      MomentumDipBuyingStrategy(params) }

\* the longest guard of a strategy
LongestLookback(s) ==
    max(MinLookback(s, "should_enter_long"), MinLookback(s, "should_exit_long"))

InitWarmUp ==
    /\ config = CHOOSE c \in Configs : c.commission = Zero
    /\ \E s \in WarmUpStrategies(Params(config)) :
          strategy \in {s} \cup { update_position(s, position_type, R(3, 1), R(5, 1)) :
                                     position_type \in {"LONG", "SHORT"} }
    /\ capital = config.initial_capital
    /\ position = None
    /\ position_size = Zero
    /\ entry_price = Zero
    /\ trades = <<>>
    /\ equity_curve = <<>>
    /\ df = <<>>
    /\ i = 0
    /\ pc = "next"
    /\ calls = <<>>
    /\ results = None
    /\ run_no = 0
    /\ first_results = None
    /\ NoExecutor

\* the driver takes the next bar, up to the first bar past every guard
WarmUpNextBar ==
    /\ Len(df) < LongestLookback(strategy) + 1
    /\ \E c \in {R(2, 1), R(3, 1)} : df' = Append(df, Candle(c, c, c, R(1, 1)))
    /\ i' = i + 1
    /\ calls' = <<>>
    /\ UNCHANGED <<strategy, pc>>
    /\ UNCHANGED StrategyFrame
    /\ UNCHANGED executor_vars

\* the driver asks one decision method for the bar
WarmUpAsk ==
    /\ i >= 1
    /\ \E m \in DecisionMethods :
          LET r == Decide(strategy, df, i, m)
          IN  /\ strategy' = r.strategy
              /\ calls' = <<Call(m, r.answer, strategy)>>
    /\ UNCHANGED <<df, i, pc>>
    /\ UNCHANGED StrategyFrame
    /\ UNCHANGED executor_vars

NextWarmUp == WarmUpNextBar \/ WarmUpAsk

SpecWarmUp == InitWarmUp /\ [][NextWarmUp]_vars

(***************************************************************************)
(* C25.  Decision methods during the warm-up.                              *)
(***************************************************************************)
\* the minimum lookback the variants have for a method: every method of
\* the four indicator strategies, the entries of the breakout strategy,
\* the long entry of the momentum strategy
HasMinimumLookback(s, m) ==
    \/ s.variant \in {"ma", "rsi", "bollinger", "macd"}
    \/ s.variant = "breakout" /\ m \in {"should_enter_long", "should_enter_short"}
    \/ s.variant = "momentum" /\ m = "should_enter_long"

\* C25: a decision method asked for a bar index below its variant's minimum
\* lookback answers false and leaves the strategy as it was.
C25_WarmUpAnswersFalse ==
    (/\ calls # <<>>
     /\ calls[1].m \in DecisionMethods
     /\ HasMinimumLookback(calls[1].position, calls[1].m)
     /\ i - 1 < MinLookback(calls[1].position, calls[1].m))
    => /\ calls[1].r = FALSE
       /\ strategy = calls[1].position

\* a momentum strategy without a position has answered should_enter_long
\* on a bar of index 5 to 9 whose close is more than pump_threshold above
\* the close five bars earlier
C25_Witness ==
    /\ calls # <<>>
    /\ calls[1].m = "should_enter_long"
    /\ strategy.variant = "momentum"
    /\ strategy.position = None
    /\ i - 1 < 10
    /\ RGt(price_change_5m(df, i), strategy.pump_threshold)
    /\ calls[1].r = FALSE

(***************************************************************************)
(* run() with a strategy whose methods can raise: BaseStrategy is          *)
(* abstract, and run() calls the methods of whatever subclass it is given. *)
(***************************************************************************)
StrategyMethods ==
    DecisionMethods \cup {"check_stop_loss", "check_take_profit"}

\* the loop takes a next bar on which one method of the strategy raises
\* when it is asked
NextBarRaising ==
    /\ pc = "loop"
    /\ i = Len(df)
    /\ run_no = 1
    /\ Len(df) < MaxBars
    /\ \E m \in StrategyMethods :
          df' = Append(df, [raises |-> m] @@ QuietBar(R(3, 1)))
    /\ i' = i + 1
    /\ pc' = "stops"
    /\ calls' = <<>>
    /\ UNCHANGED <<config, strategy, capital, position, position_size, entry_price,
                   trades, equity_curve, results, run_no, first_results>>
    /\ UNCHANGED executor_vars

NextRaise == Next \/ NextBarRaising

\* the engine of one configuration
InitRaise == Init /\ config.commission = Zero

SpecRaise == InitRaise /\ [][NextRaise]_vars

(***************************************************************************)
(* C26.  An exception of the strategy while a bar is processed.            *)
(***************************************************************************)
\* a method of the strategy has raised on the bar
RaisedOnBar == calls # <<>> /\ calls[Len(calls)].m = "raise"

\* C26: when a decision method or a stop/profit check raises on bar i,
\* run() ends with the error: no report is returned, the bars before i have
\* their snapshots and bar i has none, nothing happens after the raise, and
\* a returned report has one snapshot for every bar of the series.
C26_RaiseAbortsRun ==
    /\ [](RaisedOnBar => /\ pc = "raised"
                         /\ results = None
                         /\ Len(equity_curve) = i - 1)
    /\ [](pc = "done" => Len(equity_curve) = Len(df))
    /\ [][pc # "raised"]_vars

\* a decision method has raised on the second or a later bar
C26_Witness ==
    /\ RaisedOnBar
    /\ calls[Len(calls)].r \in DecisionMethods
    /\ pc = "raised"
    /\ i >= 2
    /\ Len(equity_curve) = i - 1

(***************************************************************************)
(* C27.  Closes and opens within one bar.                                  *)
(***************************************************************************)
\* the calls of the bar, by method
CallsOf(ms) == { k \in 1..Len(calls) : calls[k].m \in ms }

ClosesWith(reasons) ==
    { k \in 1..Len(calls) : calls[k].m = "_close_position" /\ calls[k].r \in reasons }

\* the checks of bar i are over
BarChecked == pc \in {"equity", "loop"} /\ i >= 1

\* C27: within one bar the engine closes at most one position and opens at
\* most one; a bar with a SIGNAL close ends FLAT without entry checks;
\* should_exit_* is not asked on a bar where stop-loss or take-profit
\* fired; after a STOP_LOSS or TAKE_PROFIT close the entry checks are asked
\* on that bar.
C27_OneCloseOneOpenPerBar ==
    /\ Cardinality(CallsOf({"_close_position"})) <= 1
    /\ Cardinality(CallsOf({"_open_long", "_open_short"})) <= 1
    /\ (ClosesWith({"SIGNAL"}) # {} /\ BarChecked)
       => /\ position = None
          /\ CallsOf({"should_enter_long", "should_enter_short",
                      "_open_long", "_open_short"}) = {}
    /\ ClosesWith({"STOP_LOSS", "TAKE_PROFIT"}) # {}
       => CallsOf({"should_exit_long", "should_exit_short"}) = {}
    /\ (ClosesWith({"STOP_LOSS", "TAKE_PROFIT"}) # {} /\ BarChecked)
       => \E k \in CallsOf({"should_enter_long"}) :
             \A c \in ClosesWith({"STOP_LOSS", "TAKE_PROFIT"}) : c < k

\* a bar on which a stop-loss close was followed by a new position opened
\* at the same close price
C27_Witness ==
    /\ BarChecked
    /\ ClosesWith({"STOP_LOSS"}) # {}
    /\ position # None
    /\ Len(trades) >= 2
    /\ trades[Len(trades)].entry_time = i
    /\ trades[Len(trades) - 1].exit_time = i
    /\ trades[Len(trades) - 1].exit_reason = "STOP_LOSS"
    /\ config.slippage = Zero
    /\ trades[Len(trades)].entry_price = df[i].close
    /\ trades[Len(trades) - 1].exit_price = df[i].close

(***************************************************************************)
(* C28.  The pending confirmation of the breakout strategy.                *)
(***************************************************************************)
\* the last call of the bar, the strategy before it and its answer
LastCall == calls[Len(calls)]

Asked(m) == calls # <<>> /\ LastCall.m = m /\ pc # "enter_long"

\* lines 120 and 166: the level a pullback has to reach
LongPullbackLevel(s) ==
    RAdd(s.resistance_level,
         RMul(RSub(s.breakout_high, s.resistance_level), RSub(One, s.pullback_ratio)))

ShortPullbackLevel(s) ==
    RSub(s.support_level,
         RMul(RSub(s.support_level, s.breakout_low), RSub(One, s.pullback_ratio)))

Cleared(s) ==
    /\ ~s.awaiting_pullback
    /\ s.pullback_direction = None
    /\ s.breakout_high = NoPrice
    /\ s.breakout_low = NoPrice

\* C28: should_enter_long never answers true on the bar on which it records
\* a breakout; it answers true only when a pullback with direction long is
\* awaited, the previous close was at or below the pullback level and the
\* last two closes rose; answering true clears awaiting_pullback, the
\* direction and the breakout extreme; a breakdown recorded by
\* should_enter_short replaces a pending long direction; a direction is
\* pending exactly while a pullback is awaited.  The same holds with long
\* and short exchanged.
C28_PendingConfirmation ==
    /\ strategy.awaiting_pullback <=> strategy.pullback_direction \in {"long", "short"}
    /\ strategy.pullback_direction \in {None, "long", "short"}
    /\ Asked("should_enter_long") =>
          LET s == LastCall.position IN
          /\ (resistance_breakout(s, df, i) /\ volume_confirmed(s, df, i))
             => /\ LastCall.r = FALSE
                /\ strategy.awaiting_pullback
                /\ strategy.pullback_direction = "long"
          /\ LastCall.r = TRUE
             => /\ s.awaiting_pullback
                /\ s.pullback_direction = "long"
                /\ RLe(df[i - 1].close, LongPullbackLevel(s))
                /\ RGt(df[i].close, df[i - 1].close)
                /\ RGt(df[i - 1].close, df[i - 2].close)
                /\ Cleared(strategy)
    /\ Asked("should_enter_short") =>
          LET s == LastCall.position IN
          /\ (support_breakdown(s, df, i) /\ volume_confirmed(s, df, i))
             => /\ LastCall.r = FALSE
                /\ strategy.awaiting_pullback
                /\ strategy.pullback_direction = "short"
          /\ LastCall.r = TRUE
             => /\ s.awaiting_pullback
                /\ s.pullback_direction = "short"
                /\ RGe(df[i - 1].close, ShortPullbackLevel(s))
                /\ RLt(df[i].close, df[i - 1].close)
                /\ RLt(df[i - 1].close, df[i - 2].close)
                /\ Cleared(strategy)

\* should_enter_long has answered true for a pending long breakout
C28_Witness ==
    /\ Asked("should_enter_long")
    /\ LastCall.r = TRUE
    /\ LastCall.position.pullback_direction = "long"
    /\ Cleared(strategy)

(***************************************************************************)
(* C29.  The position the strategy records.                                *)
(***************************************************************************)
\* C29: at the end of every processed bar the position type the strategy
\* records equals the engine's position type, also on a bar where an entry
\* was requested and not executed.
C29_StrategyMirrorsEngine ==
    (pc \in {"equity", "loop"} /\ i >= 1) => strategy.position = position

(***************************************************************************)
(* C30.  The sign of the capital.                                          *)
(***************************************************************************)
\* C30: the engine's capital is never negative, after any open and any
\* close of a sequence of LONG and SHORT trades.
C30_CapitalNeverNegative ==
    RGe(capital, Zero)

(***************************************************************************)
(* C31.  The ledger and the held position.                                 *)
(***************************************************************************)
\* a record of the ledger without exit fields
IsOpen(t) == "exit_time" \notin DOMAIN t

\* C31: the engine holds a position if and only if the ledger is not empty
\* and its last record has no exit fields; every record before the last is
\* closed; the open record is the one of the held position, and a closed
\* record was closed at or after its entry.
C31_LedgerMatchesPosition ==
    /\ position # None <=> (Len(trades) >= 1 /\ IsOpen(trades[Len(trades)]))
    /\ \A k \in 1..(Len(trades) - 1) : ~IsOpen(trades[k])
    /\ position # None =>
          /\ trades[Len(trades)].position_type = position
          /\ trades[Len(trades)].entry_price = entry_price
          /\ trades[Len(trades)].size = position_size
    /\ \A k \in 1..Len(trades) :
          ~IsOpen(trades[k]) => trades[k].exit_time >= trades[k].entry_time

\* a second position is held while the record of the first is closed
C31_Witness ==
    /\ position # None
    /\ Len(trades) = 2
    /\ IsOpen(trades[2])
    /\ ~IsOpen(trades[1])
    /\ trades[1].position_type # trades[2].position_type

(***************************************************************************)
(* C32.  The entry price the strategy records.                             *)
(***************************************************************************)
\* C32: while a position opened by the engine is held, the entry price the
\* strategy records, the reference of its stop-loss and take-profit, equals
\* the entry price of the engine's trade record.
C32_StrategyEntryPriceIsEffective ==
    (/\ position # None
     /\ strategy.position = position
     /\ pc \in {"equity", "loop", "stops", "signals"})
    => strategy.entry_price = trades[Len(trades)].entry_price

(***************************************************************************)
(* C33.  Which entries are skipped.                                        *)
(***************************************************************************)
\* the entry checks of a flat engine with positive capital are run
EntryChecksRun ==
    /\ pc = "signals"
    /\ pc' = "equity"
    /\ position = None
    /\ RGt(capital, Zero)

\* max_position_size x (1 + commission) > 1
OverCommitted ==
    RGt(RMul(config.max_position_size, RAdd(One, config.commission)), One)

\* C33: with positive capital a LONG entry is skipped exactly when
\* max_position_size x (1 + commission) > 1, whatever the price and the
\* slippage; a SHORT entry is never skipped: it creates a trade record and
\* increases the capital by the proceeds minus the commission.
C33_SkippedEntries ==
    [][EntryChecksRun =>
         /\ should_enter_long(strategy, df, i)
            => /\ position' = None <=> OverCommitted
               /\ position' = None => trades' = trades /\ capital' = capital
               /\ position' # None => position' = "LONG" /\ Len(trades') = Len(trades) + 1
         /\ (~should_enter_long(strategy, df, i) /\ should_enter_short(strategy, df, i))
            => /\ position' = "SHORT"
               /\ Len(trades') = Len(trades) + 1
               /\ LET t == trades'[Len(trades')]
                  IN  capital' = RAdd(capital, RSub(RMul(t.size, t.entry_price), t.commission))]_vars

\* a LONG entry has been skipped on one bar and a SHORT entry executed on a
\* later one, under a configuration with commission
C33_Witness ==
    /\ pc = "equity"
    /\ OverCommitted
    /\ position = "SHORT"
    /\ trades[Len(trades)].entry_time = i
    /\ i >= 2
    /\ \E k \in 1..(i - 1) : df[k].long_signal /\ equity_curve[k].position = None

(***************************************************************************)
(* C34.  The momentum strategy enters again after a close.                 *)
(***************************************************************************)
\* the entry checks of bar i are about to run on a flat engine whose last
\* trade was closed on an earlier bar, and the bar is a pump: its index is
\* at least 10 and its 5-bar price change exceeds pump_threshold
PumpAfterClose ==
    /\ pc = "signals"
    /\ strategy.variant = "momentum"
    /\ position = None
    /\ Len(trades) >= 1
    /\ ~IsOpen(trades[Len(trades)])
    /\ trades[Len(trades)].exit_time < i
    /\ i - 1 >= 10
    /\ RGt(price_change_5m(df, i), strategy.pump_threshold)

\* C34: in a backtest with the momentum strategy, after the engine has
\* closed the LONG position, a later bar at index >= 10 whose 5-bar price
\* change exceeds pump_threshold makes should_enter_long answer true, so
\* the number of trades is not capped at one.
C34_MomentumReenters ==
    PumpAfterClose => should_enter_long(strategy, df, i)

(***************************************************************************)
(* C35.  Reporting the same position twice.                                *)
(***************************************************************************)
\* the last operation on the strategy was update_position, and it returned
PositionReported ==
    /\ Len(calls) = 1
    /\ calls[1].m = "update_position"
    /\ ~update_position_raises(strategy, calls[1].r[1])

\* C35: update_position is idempotent for every strategy variant: a second
\* call with the same (position_type, price, size) leaves the strategy in
\* the state the first call left it in.
C35_UpdatePositionIdempotent ==
    PositionReported =>
        update_position(strategy, calls[1].r[1], calls[1].r[2], calls[1].r[3]) = strategy

(***************************************************************************)
(* LiveExecutor: start(), stop() and the passes of _trading_loop against   *)
(* an exchange account.  `pc` is the position of start() in its body,      *)
(* `df` the klines of the last pass and `calls` what the last pass did:    *)
(* the update_position calls, the orders sent and the error it logged.     *)
(***************************************************************************)
MaxIterations == 3

\* the LOT_SIZE filter of the symbol
LotSize == [stepSize |-> One, minQty |-> One]

\* the available USDT balances of the account; _get_available_balance
\* answers 0 when the query fails
Balances == {Zero, R(1000, 1)}

\* round(), for a non-negative number: to the nearest integer, a tie to
\* the even one
RRound(q) ==
    LET f == q[1] \div q[2]
        r == q[1] % q[2]
    IN  IF 2 * r < q[2] THEN <<f, 1>>
        ELSE IF 2 * r > q[2] THEN <<f + 1, 1>>
        ELSE IF f % 2 = 0 THEN <<f, 1>> ELSE <<f + 1, 1>>

\* LiveExecutor._adjust_quantity_precision; the quantity comes back as it
\* is when the exchange information cannot be read
_adjust_quantity_precision(quantity, info_ok) ==
    IF ~info_ok THEN quantity
    ELSE LET q == RMul(RRound(RDiv(quantity, LotSize.stepSize)), LotSize.stepSize)
         IN  IF RLt(q, LotSize.minQty) THEN Zero ELSE q

\* strategy.calculate_position_size; the momentum strategy overrides it
calculate_position_size(s, balance, price) ==
    IF s.variant = "momentum"
    THEN RDiv(RMul(RMul(balance,
                        IF ~s.has_added_position THEN s.position_1_ratio
                        ELSE RSub(One, s.position_1_ratio)),
                   s.leverage_multiplier),
              price)
    ELSE RDiv(RMul(balance, R(1, 2)), price)

\* BaseStrategy.get_current_signal
base_get_current_signal(s, data) ==
    LET current_index == Len(data)
        last_price == data[current_index].close
    IN  IF check_stop_loss(s, last_price)
        THEN (IF s.position = "LONG" THEN "CLOSE_LONG" ELSE "CLOSE_SHORT")
        ELSE IF check_take_profit(s, last_price)
        THEN (IF s.position = "LONG" THEN "CLOSE_LONG" ELSE "CLOSE_SHORT")
        ELSE IF s.position = None
        THEN (IF should_enter_long(s, data, current_index) THEN "BUY"
              ELSE IF should_enter_short(s, data, current_index) THEN "SELL"
              ELSE "HOLD")
        ELSE IF s.position = "LONG"
        THEN (IF should_exit_long(s, data, current_index) THEN "CLOSE_LONG" ELSE "HOLD")
        ELSE IF s.position = "SHORT"
        THEN (IF should_exit_short(s, data, current_index) THEN "CLOSE_SHORT" ELSE "HOLD")
        ELSE "HOLD"

\* MomentumDipBuyingStrategy.get_current_signal
momentum_get_current_signal(s, data) ==
    LET current_index == Len(data)
        last_price == data[current_index].close
        dip_from_first ==
            RDiv(RSub(s.first_entry_price, last_price), s.first_entry_price)
    IN  IF Len(data) = 0 THEN "HOLD"
        ELSE IF s.position = None
        THEN (IF should_enter_long(s, data, current_index) THEN "BUY"
              ELSE IF should_enter_short(s, data, current_index) THEN "SELL"
              ELSE "HOLD")
        ELSE IF s.position = "LONG"
        THEN (IF /\ ~s.has_added_position
                 /\ RGt(s.first_entry_price, Zero)
                 /\ RGt(dip_from_first, s.dip_threshold)
              THEN "ADD_LONG"
              ELSE IF should_exit_long(s, data, current_index) THEN "CLOSE_LONG"
              ELSE "HOLD")
        ELSE IF s.position = "SHORT"
        THEN (IF should_exit_short(s, data, current_index) THEN "CLOSE_SHORT" ELSE "HOLD")
        ELSE "HOLD"

\* strategy.get_current_signal, dispatched on the class of the strategy
get_current_signal(s, data) ==
    IF s.variant = "momentum" THEN momentum_get_current_signal(s, data)
    ELSE base_get_current_signal(s, data)

\* the positions futures_position_information lists with positionAmt # 0
OpenPositions(ex) ==
    { PositionInfo(side, ex[side].entry_price, ex[side].position_amt) :
        side \in { sd \in {"LONG", "SHORT"} : ex[sd].position_amt # Zero } }

\* LiveExecutor._get_current_position: the first listed position with
\* positionAmt # 0 (the exchange orders the list), None when there is
\* none and None when the query fails
PositionAnswers(ex) == OpenPositions(ex) \cup {NoPosition}

\* the account after a market order to open `quantity` on a side is
\* filled at `price`
Opened(ex, side, price, quantity) ==
    LET leg   == ex[side]
        total == RAdd(leg.position_amt, quantity)
    IN  [ex EXCEPT ![side] =
            [entry_price |-> RDiv(RAdd(RMul(leg.entry_price, leg.position_amt),
                                       RMul(price, quantity)), total),
             position_amt |-> total]]

\* the account after a market order to close the whole side is filled
Closed(ex, side) ==
    [ex EXCEPT ![side] = [entry_price |-> Zero, position_amt |-> Zero]]

\* client.futures_create_order as `calls` records it
Order(side, positionSide, ok) ==
    Call("futures_create_order", <<side, positionSide, ok>>, None)

\* what one of the _execute methods leaves behind
Executed(s, ex, log) == [strategy |-> s, exchange |-> ex, calls |-> log]

\* the failed order is reported to the strategy all the same
_execute_long_entry_ReportsFailedOrder(s, ex, log, last_price, balance, info_ok, order_ok) ==
    LET quantity ==
            _adjust_quantity_precision(
                calculate_position_size(s, balance, last_price), info_ok)
    IN  IF RLe(quantity, Zero) THEN Executed(s, ex, log)
        ELSE Executed(update_position(s, "LONG", last_price, quantity),
                      IF order_ok THEN Opened(ex, "LONG", last_price, quantity)
                      ELSE ex,
                      log \o <<Order("BUY", "LONG", order_ok),
                               Call("update_position",
                                    <<"LONG", last_price, quantity>>, None)>>)

\* LiveExecutor._execute_long_entry
_execute_long_entry(s, ex, log, last_price, balance, info_ok, order_ok) ==
    LET quantity ==
            _adjust_quantity_precision(
                calculate_position_size(s, balance, last_price), info_ok)
    IN  IF RLe(quantity, Zero) THEN Executed(s, ex, log)
        ELSE IF ~order_ok
        THEN Executed(s, ex, Append(log, Order("BUY", "LONG", FALSE)))
        ELSE Executed(update_position(s, "LONG", last_price, quantity),
                      Opened(ex, "LONG", last_price, quantity),
                      log \o <<Order("BUY", "LONG", TRUE),
                               Call("update_position",
                                    <<"LONG", last_price, quantity>>, None)>>)

\* LiveExecutor._execute_short_entry
_execute_short_entry(s, ex, log, last_price, balance, info_ok, order_ok) ==
    LET quantity ==
            _adjust_quantity_precision(
                calculate_position_size(s, balance, last_price), info_ok)
    IN  IF RLe(quantity, Zero) THEN Executed(s, ex, log)
        ELSE IF ~order_ok
        THEN Executed(s, ex, Append(log, Order("SELL", "SHORT", FALSE)))
        ELSE Executed(update_position(s, "SHORT", last_price, quantity),
                      Opened(ex, "SHORT", last_price, quantity),
                      log \o <<Order("SELL", "SHORT", TRUE),
                               Call("update_position",
                                    <<"SHORT", last_price, quantity>>, None)>>)

\* LiveExecutor._execute_close_position: `held` is the answer of its own
\* position query
_execute_close_position(s, ex, log, held, order_ok) ==
    IF held = NoPosition THEN Executed(s, ex, log)
    ELSE LET order == IF held.position_side = "LONG"
                      THEN Order("SELL", "LONG", order_ok)
                      ELSE Order("BUY", "SHORT", order_ok)
         IN  IF ~order_ok THEN Executed(s, ex, Append(log, order))
             ELSE Executed(update_position(s, None, Zero, Zero),
                           Closed(ex, held.position_side),
                           log \o <<order,
                                    Call("update_position", <<None, Zero, Zero>>, None)>>)

\* the entry branches do not look at the position the exchange reported
TradeAction_EntryWhileHolding(sig, reported) ==
    IF sig = "BUY" THEN "_execute_long_entry"
    ELSE IF sig = "SELL" THEN "_execute_short_entry"
    ELSE IF sig = "CLOSE_LONG" /\ reported # NoPosition /\ reported.position_side = "LONG"
    THEN "_execute_close_position"
    ELSE IF sig = "CLOSE_SHORT" /\ reported # NoPosition /\ reported.position_side = "SHORT"
    THEN "_execute_close_position"
    ELSE None

\* LiveExecutor._trading_loop, lines 111-122: the method the signal and
\* the reported position select
TradeAction(sig, reported) ==
    IF sig = "BUY" /\ reported = NoPosition THEN "_execute_long_entry"
    ELSE IF sig = "SELL" /\ reported = NoPosition THEN "_execute_short_entry"
    ELSE IF sig = "CLOSE_LONG" /\ reported # NoPosition /\ reported.position_side = "LONG"
    THEN "_execute_close_position"
    ELSE IF sig = "CLOSE_SHORT" /\ reported # NoPosition /\ reported.position_side = "SHORT"
    THEN "_execute_close_position"
    ELSE None

\* the klines a pass can fetch: the momentum strategy needs the ten bars
\* before the last; a bar with `raises` is one on which calculate_signals
\* raises
Klines(s) ==
    IF s.variant = "momentum"
    THEN { [k \in 1..11 |-> QuietBar(IF k <= 10 THEN R(2, 1) ELSE p)] : p \in Prices }
    ELSE { <<b>> : b \in Bars }
         \cup { <<[raises |-> "calculate_signals"] @@ QuietBar(R(3, 1))>> }

InitLive ==
    /\ config = CHOOSE c \in Configs : c.commission = Zero
    /\ strategy \in { BaseStrategy(Params(config)),
                      MomentumDipBuyingStrategy(Params(config)) }
    /\ capital = config.initial_capital
    /\ position = None
    /\ position_size = Zero
    /\ entry_price = Zero
    /\ trades = <<>>
    /\ equity_curve = <<>>
    /\ df = <<>>
    /\ i = 0
    /\ pc = "idle"
    /\ calls = <<>>
    /\ results = None
    /\ run_no = 0
    /\ first_results = None
    /\ is_running = FALSE
    /\ exchange \in { NoAccount,
                      Opened(NoAccount, "LONG", R(3, 1), R(5, 1)),
                      Opened(NoAccount, "SHORT", R(3, 1), R(5, 1)) }
    /\ current_position = NoPosition
    /\ signal = None
    /\ iterations = 0

\* the variables of the backtest engine, which a live executor leaves alone
BacktestVars == <<config, capital, position, position_size, entry_price, trades,
                  equity_curve, i, results, run_no, first_results>>

\* start(), lines 56-57
Start ==
    /\ pc = "idle"
    /\ is_running' = TRUE
    /\ pc' = "while"
    /\ UNCHANGED <<strategy, df, calls, exchange, current_position, signal, iterations>>
    /\ UNCHANGED BacktestVars

\* one call of _trading_loop from the loop of start(): the klines, the
\* answers of the exchange and whether each request succeeds are the
\* environment's
TradingLoop ==
    /\ pc = "while"
    /\ is_running
    /\ iterations < MaxIterations
    /\ iterations' = iterations + 1
    /\ pc' = "sleep"
    /\ \E fetch_ok \in BOOLEAN :
          IF ~fetch_ok
          THEN /\ calls' = <<Call("error", "get_futures_klines", None)>>
               /\ current_position' = NoPosition
               /\ signal' = None
               /\ UNCHANGED <<strategy, df, exchange>>
          ELSE \E klines \in Klines(strategy) :
             IF "raises" \in DOMAIN klines[Len(klines)]
             THEN /\ calls' = <<Call("error", "calculate_signals", None)>>
                  /\ current_position' = NoPosition
                  /\ signal' = None
                  /\ UNCHANGED <<strategy, df, exchange>>
             ELSE \E reported \in PositionAnswers(exchange) :
                LET last_price == klines[Len(klines)].close
                    told == IF reported # NoPosition
                            THEN update_position(strategy, reported.position_side,
                                                 reported.entry_price, reported.position_amt)
                            ELSE update_position(strategy, None, Zero, Zero)
                    log  == <<Call("update_position",
                                   <<reported.position_side, reported.entry_price,
                                     reported.position_amt>>, None)>>
                    sig  == get_current_signal(told, klines)
                    act  == TradeAction(sig, reported)
                    Does(done) == /\ strategy' = done.strategy
                                  /\ exchange' = done.exchange
                                  /\ calls' = done.calls
                IN  /\ df' = klines
                    /\ current_position' = reported
                    /\ signal' = sig
                    /\ IF act = "_execute_long_entry"
                       THEN \E balance \in Balances, info_ok \in BOOLEAN, order_ok \in BOOLEAN :
                               Does(_execute_long_entry(told, exchange, log, last_price,
                                                        balance, info_ok, order_ok))
                       ELSE IF act = "_execute_short_entry"
                       THEN \E balance \in Balances, info_ok \in BOOLEAN, order_ok \in BOOLEAN :
                               Does(_execute_short_entry(told, exchange, log, last_price,
                                                         balance, info_ok, order_ok))
                       ELSE IF act = "_execute_close_position"
                       THEN \E held \in PositionAnswers(exchange), order_ok \in BOOLEAN :
                               Does(_execute_close_position(told, exchange, log, held, order_ok))
                       ELSE Does(Executed(told, exchange, log))
    /\ UNCHANGED is_running
    /\ UNCHANGED BacktestVars

\* time.sleep(check_interval) returns, line 61
Sleep ==
    /\ pc = "sleep"
    /\ pc' = "while"
    /\ UNCHANGED <<strategy, df, calls>>
    /\ UNCHANGED executor_vars
    /\ UNCHANGED BacktestVars

\* the test of the while loop fails and start() returns
LoopExit ==
    /\ pc = "while"
    /\ ~is_running
    /\ pc' = "returned"
    /\ UNCHANGED <<strategy, df, calls>>
    /\ UNCHANGED executor_vars
    /\ UNCHANGED BacktestVars

\* stop(), called by another thread while start() runs
Stop ==
    /\ pc \in {"while", "sleep"}
    /\ is_running
    /\ is_running' = FALSE
    /\ UNCHANGED <<strategy, df, calls, pc, exchange, current_position, signal, iterations>>
    /\ UNCHANGED BacktestVars

\* KeyboardInterrupt while start() sleeps: its handler calls stop() and
\* start() returns, lines 63-65
Interrupt ==
    /\ pc = "sleep"
    /\ is_running' = FALSE
    /\ pc' = "returned"
    /\ UNCHANGED <<strategy, df, calls, exchange, current_position, signal, iterations>>
    /\ UNCHANGED BacktestVars

NextLive ==
    \/ Start
    \/ TradingLoop
    \/ Sleep
    \/ LoopExit
    \/ Stop
    \/ Interrupt

SpecLive == InitLive /\ [][NextLive]_vars

(***************************************************************************)
(* C36.  At most one order per pass of the trading loop.                   *)
(***************************************************************************)
\* the orders the last pass sent
Orders == SelectSeq(calls, LAMBDA c : c.m = "futures_create_order")

EntryOrder(c) == <<c.r[1], c.r[2]>> \in {<<"BUY", "LONG">>, <<"SELL", "SHORT">>}

\* C36: a pass of the trading loop sends at most one order: an entry order
\* only on a BUY (SELL) signal when the position query at the start of the
\* pass reported no position, a closing order only on a CLOSE_LONG
\* (CLOSE_SHORT) signal when that query reported a LONG (SHORT) position,
\* and no order on HOLD or any other signal.
C36_OneOrderPerPass ==
    pc = "sleep" =>
        /\ Len(Orders) <= 1
        /\ \A k \in 1..Len(Orders) :
              IF EntryOrder(Orders[k])
              THEN /\ current_position = NoPosition
                   /\ signal = (IF Orders[k].r[1] = "BUY" THEN "BUY" ELSE "SELL")
              ELSE /\ current_position # NoPosition
                   /\ signal = (IF current_position.position_side = "LONG"
                                THEN "CLOSE_LONG" ELSE "CLOSE_SHORT")
        /\ signal \notin {"BUY", "SELL", "CLOSE_LONG", "CLOSE_SHORT"} => Orders = <<>>

\* a pass has closed the LONG position an earlier pass opened
C36_Witness ==
    /\ pc = "sleep"
    /\ iterations >= 2
    /\ signal = "CLOSE_LONG"
    /\ Len(Orders) = 1
    /\ Orders[1].r = <<"SELL", "LONG", TRUE>>
    /\ exchange = NoAccount

(***************************************************************************)
(* C37.  Errors stay inside the pass; the loop ends only when stopped.     *)
(***************************************************************************)
\* a failed order is the last thing its pass did: update_position is not
\* called for it
FailedOrderNotReported ==
    \A k \in 1..Len(calls) :
        (calls[k].m = "futures_create_order" /\ ~calls[k].r[3]) => k = Len(calls)

\* C37: a pass of the trading loop, failed or not, leaves is_running true
\* and goes on to the sleep before the next pass; a failed order is not
\* reported to the strategy with update_position; a pass starts only
\* while is_running is true, nothing sets is_running again once stop()
\* has cleared it, and start() returns only with is_running false.
C37_ErrorsContained ==
    /\ [][iterations' # iterations
             => is_running /\ is_running' /\ pc' = "sleep"]_vars
    /\ [](pc = "sleep" => FailedOrderNotReported)
    /\ [][is_running' => (is_running \/ pc = "idle")]_vars
    /\ [](pc = "returned" => ~is_running)

\* the second pass has run after a first one, and it has failed on an
\* order while the executor keeps running
C37_Witness ==
    /\ pc = "sleep"
    /\ iterations >= 2
    /\ is_running
    /\ \E k \in 1..Len(calls) :
          calls[k].m = "futures_create_order" /\ ~calls[k].r[3]

(***************************************************************************)
(* C38.  The grid strategy answers once its grid is set up.                *)
(***************************************************************************)
\* calculate_signals has set up a grid of grid_num + 1 >= 2 price levels
GridIsSetUp ==
    /\ strategy.variant = "grid"
    /\ strategy.base_price # NoPrice
    /\ Len(strategy.grid_prices) = strategy.grid_num + 1
    /\ Len(strategy.grid_prices) >= 2

\* C38: once the grid of grid_num + 1 >= 2 levels is set up, the grid-level
\* lookup returns a level and the four decision methods return an answer
\* at every bar index >= 1: none of them raises.
C38_GridAnswers ==
    GridIsSetUp =>
        /\ ~grid_prices_raises(strategy.grid_prices)
        /\ \A k \in 2..(MaxBars + 1) : ~grid_decision_raises(strategy, k)

==============================================================================
